---- MODULE Spec2Model ----
(***************************************************************************)
(* Transcript segmentation, chunk cache and splitter of the Beauty-Agent   *)
(* repository (service/youtube_extraction, service/agent).                 *)
(*                                                                         *)
(* Text is modelled as a tuple of one-character strings, so that regular   *)
(* expression matching, str.strip, str.split, str.join and path building   *)
(* are computed character by character, as the Python code computes them.  *)
(***************************************************************************)
EXTENDS Integers, Sequences, FiniteSets, TLC

\* ------------------------------------------------------------------ bounds
\* longest entry list handed to sliding_window
MaxLen == 5
\* largest window_size / step_size tried on sliding_window
MaxW == 4
MaxS == 4
\* most lines of a raw transcript handed to split_video_to_multiple_transcript
MaxLines == 3
\* most calls of the cache interface started in one run
MaxCalls == 3
\* lines of the raw transcript of the video the callers ask for
RawLines == 12
\* longest list of chunk records written to one cache file as text
MaxChunks == 2
\* most constructions, searches and cache writes in one run of the searchers
MaxIxCalls == 3
\* longest time token given to time_to_seconds
MaxToken == 4
\* longest sequence given to map_progress, and largest max_concurrency
MaxSeq == 3
MaxConc == 2

VARIABLES
    \* --- sliding_window, one call, one loop iteration per step
    sw_impl,      \* which sliding_window: "process" (youtube_process.py) or "transcripts" (transcripts.py)
    sw_parsed,    \* argument parsed
    sw_window,    \* argument window_size
    sw_step,      \* argument step_size
    sw_pc,        \* "entry", "loop", "returned", "raised"
    sw_start,     \* loop variable start (next value of range(0, total, step_size))
    sw_chunk_id,  \* local chunk_id
    sw_chunks,    \* local chunks
    sw_spans,     \* for each chunk of sw_chunks, the <<start, end>> of its window (history)
    sw_broke,     \* how the loop was left: "none", "small" (line 336), "end" (line 379), "range"
    \* --- split_video_to_multiple_transcript, one call, one line per step
    sp_raw,        \* video["transcript"]
    sp_pc,         \* "entry", "loop", "returned"
    sp_lines,      \* local lines
    sp_i,          \* number of lines the for loop has consumed
    sp_parsed,     \* local parsed
    sp_transcript, \* local transcript
    sp_entry_of,   \* for each consumed line, the index in parsed of its entry, or 0 (history)
    \* --- the chunk cache and its callers
    files,         \* the files under .cache: path -> sequence of JSON tokens, or NoFile
    dirs,          \* the directories under .cache that exist
    pc,            \* per caller: where it is in chunk_transcript, or "idle"
    args,          \* per caller: the arguments of the call in progress
    loc,           \* per caller: the locals video_summary and chunks
    last,          \* per caller: the call it finished last, with its result
    calls,         \* calls started so far
    n_summarize,   \* per cache key: invocations of youtuber_summarize (history)
    n_summarized,  \* per cache key: invocations of youtuber_summarize that returned (history)
    n_window,      \* per cache key: executions of sliding_window (history)
    n_built,       \* per cache key: miss-branch calls that ran to their end (history)
    \* --- one cache entry as JSON text, its writer and its readers
    pl_chunks,     \* the list save_transcript is given
    pl_file,       \* the file: whether it exists, and its characters
    pl_pc,         \* "start", "opened", "saved", "crashed", or "external" (not written by save_transcript)
    pl_read,       \* the last read of the entry: reader, outcome, value
    \* --- list_cached_videos, one call, one file per step
    lc_pc,         \* "idle" or "loop"
    lc_args,       \* the arguments youtuber, window_size, step_size
    lc_todo,       \* the files glob has still to yield
    lc_out,        \* local video_url
    lc_ret,        \* how the call ended, and what it returned
    \* --- the searchers: their indexes on disk and in the search backend
    ix_pc,         \* per searcher: "none" (not constructed), "ready", or where it is in a build
    ix_cfg,        \* per searcher: class, youtuber, index_name
    ix_combined,   \* per searcher: local combined
    ix_i,          \* per searcher: chunks of combined that index_chunks_es has indexed
    ix_mem,        \* per searcher: the minsearch index it holds in memory
    ix_last,       \* per searcher: the call it finished last, with its result
    ix_blob,       \* the pickled minsearch indexes on disk
    es,            \* the collections of the search backend: documents, how many are searchable,
                   \* and (history) the chunks that were cached when the collection was created
    ix_late,       \* per collection: chunk files saved after its build (history)
    ix_recovered,  \* pickled indexes rebuilt after they were found unreadable (history)
    ix_calls,      \* calls started so far
    \* --- time_to_seconds, one call
    tt_pc,         \* "start", "done"
    tt_impl,       \* which time_to_seconds ran: "youtube_agent", "main", "app", or "none"
    tt_token,      \* argument time_str
    tt_ret,        \* how the call ended, and what it returned
    \* --- map_progress, one call
    mp_pc,         \* "idle", "looping" (in the for loop), "returned", "raised"
    mp_n,          \* len(seq)
    mp_max,        \* argument max_concurrency
    mp_sem,        \* the value of the semaphore
    mp_task,       \* per element: where its coroutine run(el) is
    mp_queue,      \* the finished coroutines that the loop has not been handed yet, oldest first
    mp_results     \* local results

sw_vars == <<sw_impl, sw_parsed, sw_window, sw_step, sw_pc, sw_start,
             sw_chunk_id, sw_chunks, sw_spans, sw_broke>>

sp_vars == <<sp_raw, sp_pc, sp_lines, sp_i, sp_parsed, sp_transcript, sp_entry_of>>

fs_vars == <<files, dirs>>
hist_vars == <<n_summarize, n_summarized, n_window, n_built>>
ct_vars == <<fs_vars, pc, args, loc, last, calls, hist_vars>>

pl_vars == <<pl_chunks, pl_file, pl_pc, pl_read>>

lc_vars == <<lc_pc, lc_args, lc_todo, lc_out, lc_ret>>

ix_vars == <<ix_pc, ix_cfg, ix_combined, ix_i, ix_mem, ix_last, ix_blob, es, ix_late,
             ix_recovered, ix_calls>>

tt_vars == <<tt_pc, tt_impl, tt_token, tt_ret>>

mp_vars == <<mp_pc, mp_n, mp_max, mp_sem, mp_task, mp_queue, mp_results>>

vars == <<sw_vars, sp_vars, ct_vars, pl_vars, lc_vars, ix_vars, tt_vars, mp_vars>>

\* the variables of the other components, which a component's step leaves alone
not_sw == <<sp_vars, ct_vars, pl_vars, lc_vars, ix_vars, tt_vars, mp_vars>>
not_sp == <<sw_vars, ct_vars, pl_vars, lc_vars, ix_vars, tt_vars, mp_vars>>
not_ct == <<sw_vars, sp_vars, pl_vars, lc_vars, ix_vars, tt_vars, mp_vars>>
not_pl == <<sw_vars, sp_vars, ct_vars, lc_vars, ix_vars, tt_vars, mp_vars>>
not_lc == <<sw_vars, sp_vars, ct_vars, pl_vars, ix_vars, tt_vars, mp_vars>>
\* what a searcher's step leaves alone, the chunk files apart
not_ix == <<sw_vars, sp_vars, pl_vars, lc_vars, dirs, pc, args, loc, last, calls, hist_vars,
            tt_vars, mp_vars>>
not_tt == <<sw_vars, sp_vars, ct_vars, pl_vars, lc_vars, ix_vars, mp_vars>>
not_mp == <<sw_vars, sp_vars, ct_vars, pl_vars, lc_vars, ix_vars, tt_vars>>

\* --------------------------------------------------------------- text helpers
Min(a, b) == IF a < b THEN a ELSE b

Digits == <<"0", "1", "2", "3", "4", "5", "6", "7", "8", "9">>

\* str(n) / f"{n}" of a non-negative int
RECURSIVE Str(_)
Str(n) == IF n < 10 THEN <<Digits[n + 1]>> ELSE Str(n \div 10) \o <<Digits[(n % 10) + 1]>>

\* f"{n:02}"
Pad2(n) == IF n < 10 THEN <<"0">> \o Str(n) ELSE Str(n)

\* sep.join(parts)
RECURSIVE Join(_, _)
Join(sep, parts) ==
    IF Len(parts) = 0 THEN <<>>
    ELSE IF Len(parts) = 1 THEN parts[1]
    ELSE parts[1] \o sep \o Join(sep, Tail(parts))

\* YoutubeParser._format_timestamp
FormatTimestamp(seconds) ==
    LET hours     == seconds \div 3600
        remainder == seconds % 3600
        minutes   == remainder \div 60
        secs      == remainder % 60
    IN  IF hours > 0
        THEN Str(hours) \o <<":">> \o Pad2(minutes) \o <<":">> \o Pad2(secs)
        ELSE Str(minutes) \o <<":">> \o Pad2(secs)

\* ------------------------------------------- split_video_to_multiple_transcript
NL == "\n"

\* \d of the re module, on the characters transcripts are written with
IsDigit(c) == c \in {"0", "1", "2", "3", "4", "5", "6", "7", "8", "9"}

\* \s of the re module and the characters str.strip() removes
IsSpace(c) == c \in {" ", NL, "\t", "\r"}

\* how many characters from position `from` (1-based) on satisfy \d, greedily
RECURSIVE DigitRun(_, _)
DigitRun(s, from) ==
    IF from <= Len(s) /\ IsDigit(s[from]) THEN 1 + DigitRun(s, from + 1) ELSE 0

\* how many characters from position `from` on satisfy \s, greedily
RECURSIVE SpaceRun(_, _)
SpaceRun(s, from) ==
    IF from <= Len(s) /\ IsSpace(s[from]) THEN 1 + SpaceRun(s, from + 1) ELSE 0

\* how many characters before position `to` (going left) satisfy \s
RECURSIVE SpaceRunBack(_, _)
SpaceRunBack(s, to) ==
    IF to >= 1 /\ IsSpace(s[to]) THEN 1 + SpaceRunBack(s, to - 1) ELSE 0

\* s.strip()
Strip(s) ==
    LET lead == SpaceRun(s, 1)
    IN  IF lead = Len(s) THEN <<>>
        ELSE SubSeq(s, lead + 1, Len(s) - SpaceRunBack(s, Len(s)))

\* s.split("\n"): always at least one part
RECURSIVE SplitLines(_)
SplitLines(s) ==
    IF \A i \in 1..Len(s) : s[i] # NL THEN <<s>>
    ELSE LET first == CHOOSE i \in 1..Len(s) : s[i] = NL /\ \A j \in 1..(i - 1) : s[j] # NL
         IN  <<SubSeq(s, 1, first - 1)>> \o SplitLines(SubSeq(s, first + 1, Len(s)))

\* (mutant) re.search in place of re.match: the timestamp may start anywhere
PatternMatch_Search(line) ==
    LET starts == {p \in 1..Len(line) :
                     /\ DigitRun(line, p) >= 1
                     /\ p + DigitRun(line, p) <= Len(line)
                     /\ line[p + DigitRun(line, p)] = ":"
                     /\ DigitRun(line, p + DigitRun(line, p) + 1) >= 1}
    IN  IF starts = {} THEN [matched |-> FALSE]
        ELSE LET p   == CHOOSE q \in starts : \A r \in starts : q <= r
                 d1  == DigitRun(line, p)
                 d2  == DigitRun(line, p + d1 + 1)
                 end == p + d1 + d2
             IN  [matched  |-> TRUE,
                  time     |-> SubSeq(line, p, end),
                  sentence |-> SubSeq(line, end + 1 + SpaceRun(line, end + 1), Len(line))]

\* pattern.match(line) for pattern (\d+:\d+)\s*(.*): anchored at the start of the
\* line; \d+ , \s* and .* are greedy and no backtracking can change the groups
PatternMatch(line) ==
    LET d1  == DigitRun(line, 1)
        d2  == DigitRun(line, d1 + 2)
        end == d1 + 1 + d2
    IN  IF d1 >= 1 /\ d1 + 1 <= Len(line) /\ line[d1 + 1] = ":" /\ d2 >= 1
        THEN [matched  |-> TRUE,
              time     |-> SubSeq(line, 1, end),
              sentence |-> SubSeq(line, end + 1 + SpaceRun(line, end + 1), Len(line))]
        ELSE [matched |-> FALSE]

\* the dict appended at line 271
ParsedEntry(m) == [time |-> m.time, text |-> Strip(m.sentence)]

\* the for loop of lines 266-274 over `lines`, as one recursive function
RECURSIVE SplitLoop(_, _, _)
SplitLoop(lines, parsed, transcript) ==
    IF Len(lines) = 0 THEN <<parsed, transcript>>
    ELSE LET m == PatternMatch(Head(lines))
         IN  IF m.matched
             THEN SplitLoop(Tail(lines), Append(parsed, ParsedEntry(m)),
                            transcript \o Strip(m.sentence) \o <<" ">>)
             ELSE SplitLoop(Tail(lines), parsed, transcript)

\* split_video_to_multiple_transcript(video), video["transcript"] = raw:
\* <<parsed, transcript>>
split_video_to_multiple_transcript(raw) == SplitLoop(SplitLines(Strip(raw)), <<>>, <<>>)

\* YoutubeParser._make_subtitles: one line, ts + " " + text
SubtitleLine(seconds, text) == FormatTimestamp(seconds) \o <<" ">> \o text

\* --- the same function, one line per step
SampleSeconds == {5, 3723}
SampleSentences == {<<"H", "i">>, <<>>, <<"3", " ", "a">>}

\* lines a transcript file may hold: subtitle lines, and lines without a timestamp
\* at their start
SampleLines ==
    {SubtitleLine(sec, t) : sec \in SampleSeconds, t \in SampleSentences}
    \cup {<<"H", "i">>, <<>>, <<" ", "0", ":", "0", "5", " ", "H", "i">>}

RawTexts ==
    UNION {{Join(<<NL>>, l) : l \in [1..n -> SampleLines]} : n \in 0..MaxLines}

SpInit ==
    /\ sp_raw \in RawTexts
    /\ sp_pc = "entry"
    /\ sp_lines = <<>>
    /\ sp_i = 0
    /\ sp_parsed = <<>>
    /\ sp_transcript = <<>>
    /\ sp_entry_of = <<>>

\* lines 261-265
SpSplitLines ==
    /\ UNCHANGED not_sp
    /\ sp_pc = "entry"
    /\ sp_lines' = SplitLines(Strip(sp_raw))
    /\ sp_pc' = "loop"
    /\ UNCHANGED <<sp_raw, sp_i, sp_parsed, sp_transcript, sp_entry_of>>

\* lines 266-274, a line the pattern matches
SpMatchLine ==
    /\ UNCHANGED not_sp
    /\ sp_pc = "loop"
    /\ sp_i < Len(sp_lines)
    /\ LET m == PatternMatch(sp_lines[sp_i + 1])
       IN  /\ m.matched
           /\ sp_parsed' = Append(sp_parsed, ParsedEntry(m))
           /\ sp_transcript' = sp_transcript \o Strip(m.sentence) \o <<" ">>
           /\ sp_entry_of' = Append(sp_entry_of, Len(sp_parsed) + 1)
    /\ sp_i' = sp_i + 1
    /\ UNCHANGED <<sp_raw, sp_pc, sp_lines>>

\* lines 266-268, a line the pattern does not match
SpSkipLine ==
    /\ UNCHANGED not_sp
    /\ sp_pc = "loop"
    /\ sp_i < Len(sp_lines)
    /\ ~PatternMatch(sp_lines[sp_i + 1]).matched
    /\ sp_entry_of' = Append(sp_entry_of, 0)
    /\ sp_i' = sp_i + 1
    /\ UNCHANGED <<sp_raw, sp_pc, sp_lines, sp_parsed, sp_transcript>>

\* line 275
SpReturn ==
    /\ UNCHANGED not_sp
    /\ sp_pc = "loop"
    /\ sp_i = Len(sp_lines)
    /\ sp_pc' = "returned"
    /\ UNCHANGED <<sp_raw, sp_lines, sp_i, sp_parsed, sp_transcript, sp_entry_of>>

\* what the splitter's variables are while another component runs
SpIdle ==
    /\ sp_raw = <<>>
    /\ sp_pc = "idle"
    /\ sp_lines = <<>>
    /\ sp_i = 0
    /\ sp_parsed = <<>>
    /\ sp_transcript = <<>>
    /\ sp_entry_of = <<>>

\* --------------------------------------------------------------- sliding_window
\* a YTSummaryResponse as the summarizer returns it
Summary1 == [title_en |-> <<"T">>, summary_en |-> <<"S">>, title_zh |-> <<"t">>,
             summary_zh |-> <<"s">>, category |-> "makeup"]

\* parsed[start:end] with 0-based, end-exclusive Python indices
Slice(seq, start, end) == SubSeq(seq, start + 1, end)

\* [entry["text"] for entry in window]
Texts(window) == [i \in 1..Len(window) |-> window[i].text]

\* the dict appended at youtube_process.py:359-374 (language != "English")
ProcessChunk(video_id, youtuber, video_summary, chunk_id, window) ==
    [video_id   |-> video_id,
     youtuber   |-> youtuber,
     title      |-> video_summary.title_en,
     summary    |-> video_summary.summary_en,
     category   |-> video_summary.category,
     title_zh   |-> video_summary.title_zh,
     summary_zh |-> video_summary.summary_zh,
     chunk_id   |-> chunk_id,
     start_time |-> window[1].time,
     end_time   |-> window[Len(window)].time,
     content    |-> Join(<<" ">>, Texts(window))]

\* the dict appended at transcripts.py:60-70
TranscriptsChunk(video_id, youtuber, video_summary, chunk_id, window) ==
    [video_id   |-> video_id,
     youtuber   |-> youtuber,
     chunk_id   |-> chunk_id,
     start_time |-> window[1].time,
     end_time   |-> window[Len(window)].time,
     content    |-> Join(<<" ">>, Texts(window)),
     title      |-> video_summary.title_en,
     summary    |-> video_summary.summary_en,
     category   |-> video_summary.category]

\* end = min(start + window_size, total)
WindowEnd(start, window_size, total) == Min(start + window_size, total)

\* (mutant) the threshold one lower: a one-entry window is kept
TooSmall_Lt1(window) == Len(window) < 1

\* if len(window) < 2: break
TooSmall(window) == Len(window) < 2

\* (mutant) the loop is left one entry early
ReachedEnd_Early(end, total) == end >= total - 1

\* (mutant) the loop is never left at the end
ReachedEnd_Never(end, total) == FALSE

\* if end == total: break
ReachedEnd(end, total) == end = total

\* The for loop of sliding_window from `start` on, as one recursive function.
RECURSIVE SlidingLoop(_, _, _, _, _, _, _, _)
SlidingLoop(video_id, youtuber, parsed, video_summary, window_size, step_size, start, chunks) ==
    LET total  == Len(parsed)
        end    == WindowEnd(start, window_size, total)
        window == Slice(parsed, start, end)
        chunk  == ProcessChunk(video_id, youtuber, video_summary, Len(chunks) + 1, window)
    IN  IF start >= total THEN chunks
        ELSE IF TooSmall(window) THEN chunks
        ELSE IF ReachedEnd(end, total) THEN Append(chunks, chunk)
        ELSE SlidingLoop(video_id, youtuber, parsed, video_summary, window_size,
                         step_size, start + step_size, Append(chunks, chunk))

\* youtube_process.sliding_window(video_id, youtuber, parsed, video_summary, window_size, step_size)
sliding_window(video_id, youtuber, parsed, video_summary, window_size, step_size) ==
    SlidingLoop(video_id, youtuber, parsed, video_summary, window_size, step_size, 0, <<>>)

\* what sliding_window's variables are while another component runs
SwIdle ==
    /\ sw_impl = "process"
    /\ sw_parsed = <<>>
    /\ sw_window = 1
    /\ sw_step = 1
    /\ sw_pc = "idle"
    /\ sw_start = 0
    /\ sw_chunk_id = 1
    /\ sw_chunks = <<>>
    /\ sw_spans = <<>>
    /\ sw_broke = "none"

\* --- the same function, one loop iteration per step
EntryTexts == {<<>>, <<"H", "i">>}

\* the i-th entry of a transcript whose lines are 1805 s apart: 0:00, 30:05, 1:00:10, ...
EntryAt(i, text) ==
    [youtuber |-> <<"a">>, video_id |-> <<"v">>,
     time |-> FormatTimestamp((i - 1) * 1805), text |-> text]

EntryLists ==
    UNION {{[i \in 1..n |-> EntryAt(i, t[i])] : t \in [1..n -> EntryTexts]} : n \in 0..MaxLen}

SwInit ==
    /\ sw_impl \in {"process", "transcripts"}
    /\ sw_parsed \in EntryLists
    /\ sw_window \in 1..MaxW
    /\ sw_step \in 1..MaxS
    /\ sw_pc = "entry"
    /\ sw_start = 0
    /\ sw_chunk_id = 1
    /\ sw_chunks = <<>>
    /\ sw_spans = <<>>
    /\ sw_broke = "none"

\* Lines 324-328 (process) or 43-47 (transcripts): the locals before the loop.
\* transcripts.py reads parsed[0] first, which raises IndexError on an empty list.
SwEnter ==
    /\ UNCHANGED not_sw
    /\ sw_pc = "entry"
    /\ sw_pc' = IF sw_impl = "transcripts" /\ Len(sw_parsed) = 0 THEN "raised" ELSE "loop"
    /\ UNCHANGED <<sw_impl, sw_parsed, sw_window, sw_step, sw_start, sw_chunk_id,
                   sw_chunks, sw_spans, sw_broke>>

\* range(0, total, step_size) is exhausted: return chunks
SwExhausted ==
    /\ UNCHANGED not_sw
    /\ sw_pc = "loop"
    /\ sw_start >= Len(sw_parsed)
    /\ sw_pc' = "returned"
    /\ sw_broke' = "range"
    /\ UNCHANGED <<sw_impl, sw_parsed, sw_window, sw_step, sw_start, sw_chunk_id,
                   sw_chunks, sw_spans>>

\* the window at start has fewer than 2 entries: break, return chunks
SwBreakSmall ==
    /\ UNCHANGED not_sw
    /\ sw_pc = "loop"
    /\ sw_start < Len(sw_parsed)
    /\ TooSmall(Slice(sw_parsed, sw_start, WindowEnd(sw_start, sw_window, Len(sw_parsed))))
    /\ sw_pc' = "returned"
    /\ sw_broke' = "small"
    /\ UNCHANGED <<sw_impl, sw_parsed, sw_window, sw_step, sw_start, sw_chunk_id,
                   sw_chunks, sw_spans>>

\* one full iteration: append the chunk, chunk_id += 1, break if end == total
SwEmit ==
    /\ UNCHANGED not_sw
    /\ sw_pc = "loop"
    /\ sw_start < Len(sw_parsed)
    /\ LET total  == Len(sw_parsed)
           end    == WindowEnd(sw_start, sw_window, total)
           window == Slice(sw_parsed, sw_start, end)
           chunk  == IF sw_impl = "process"
                     THEN ProcessChunk(<<"v">>, <<"a">>, Summary1, sw_chunk_id, window)
                     ELSE TranscriptsChunk(sw_parsed[1].video_id, sw_parsed[1].youtuber,
                                           Summary1, sw_chunk_id, window)
       IN  /\ ~TooSmall(window)
           /\ sw_chunks' = Append(sw_chunks, chunk)
           /\ sw_spans' = Append(sw_spans, <<sw_start, end>>)
           /\ sw_chunk_id' = sw_chunk_id + 1
           /\ IF ReachedEnd(end, total)
              THEN /\ sw_pc' = "returned"
                   /\ sw_broke' = "end"
                   /\ sw_start' = sw_start
              ELSE /\ sw_pc' = "loop"
                   /\ sw_broke' = sw_broke
                   /\ sw_start' = sw_start + sw_step
    /\ UNCHANGED <<sw_impl, sw_parsed, sw_window, sw_step>>

\* ------------------------------------------------------------------ chunk cache
\* CACHE_DATA_DIR = Path(".cache"), RAW_DATA_DIR = Path("data")
CACHE_DATA_DIR == <<".", "c", "a", "c", "h", "e">>

\* Path(f"{self.cache_dir}_{window_size}_{step_size}_Chinese"), self.cache_dir = CACHE_DATA_DIR / youtuber
ChineseCacheDir(youtuber, window_size, step_size) ==
    CACHE_DATA_DIR \o <<"/">> \o youtuber \o <<"_">> \o Str(window_size) \o <<"_">>
        \o Str(step_size) \o <<"_", "C", "h", "i", "n", "e", "s", "e">>

\* Path(f"{self.cache_dir}_{window_size}_{step_size}") of YoutuberTranscriptProcessorEng
EnglishCacheDir(youtuber, window_size, step_size) ==
    CACHE_DATA_DIR \o <<"/">> \o youtuber \o <<"_">> \o Str(window_size) \o <<"_">>
        \o Str(step_size)

\* (mutant) the directory does not depend on window_size and step_size
CacheDirOf_NoWindow(variant, youtuber, window_size, step_size) ==
    CACHE_DATA_DIR \o <<"/">> \o youtuber

\* the cache directory of a processor of the given language variant
CacheDirOf(variant, youtuber, window_size, step_size) ==
    IF variant = "Chinese"
    THEN ChineseCacheDir(youtuber, window_size, step_size)
    ELSE EnglishCacheDir(youtuber, window_size, step_size)

\* cache_dir / f"{self.youtuber}_{video_id}.json"
CacheFile(cache_dir, youtuber, video_id) ==
    cache_dir \o <<"/">> \o youtuber \o <<"_">> \o video_id \o <<".", "j", "s", "o", "n">>

\* file_path of chunk_transcript called with arguments a
PathOf(a) ==
    CacheFile(CacheDirOf(a.variant, a.youtuber, a.window_size, a.step_size),
              a.youtuber, a.video_id)

\* file_path of has_cached_transcript(youtuber, video_id, window_size, step_size)
HasCachedPath(youtuber, video_id, window_size, step_size) ==
    CACHE_DATA_DIR \o <<"/">> \o youtuber \o <<"_">> \o Str(window_size) \o <<"_">>
        \o Str(step_size) \o <<"_", "C", "h", "i", "n", "e", "s", "e">>
        \o <<"/">> \o youtuber \o <<"_">> \o video_id \o <<".", "j", "s", "o", "n">>

\* the CacheKey of a call
KeyOf(a) == <<a.variant, a.youtuber, a.video_id, a.window_size, a.step_size>>

\* --- the callers' inputs
\* the callers are those create_clarify_agent registers: chunk_transcript of a
\* YoutuberTranscriptProcessor (the Chinese variant) and has_cached_transcript
Procs == {"p1", "p2"}
Youtubers == {<<"a">>}
VideoIds == {<<"v", "1">>, <<"v", "2">>}

\* window_size and step_size: the defaults of chunk_transcript, and those of
\* transcripts.sliding_window
DefaultWindow == 15
DefaultStep == 3
OtherWindow == 10
OtherStep == 5
WindowSteps == {<<DefaultWindow, DefaultStep>>, <<OtherWindow, OtherStep>>}

ArgsOf(variant, youtuber, video_id, ws) ==
    [op |-> "chunk_transcript", variant |-> variant, youtuber |-> youtuber,
     video_id |-> video_id, window_size |-> ws[1], step_size |-> ws[2]]

AllArgs ==
    {ArgsOf("Chinese", y, i, ws) : y \in Youtubers, i \in VideoIds, ws \in WindowSteps}

Keys == {KeyOf(a) : a \in AllArgs}

Paths ==
    {PathOf(a) : a \in AllArgs}
    \cup {HasCachedPath(a.youtuber, a.video_id, a.window_size, a.step_size) : a \in AllArgs}

\* the sentence of the i-th line of the transcript of video v1
RawWords == <<"A", "B", "C", "D", "E", "F", "G", "H", "I", "J", "K", "L", "M", "N">>

\* how many lines the transcript of a video has; 0 when there is no such file
RawLineCount(video_id) ==
    IF video_id = <<"v", "1">> THEN RawLines
    ELSE IF video_id = <<"v", "0">> THEN 1
    ELSE IF video_id = <<"x", "a", "_", "y">> THEN 2
    ELSE 0

\* data/<youtuber>/<video_id>.txt: the lines are 5 s apart; video v2 has no file
RawFile(youtuber, video_id) ==
    IF RawLineCount(video_id) > 0
    THEN [exists |-> TRUE,
          text |-> Join(<<NL>>, [i \in 1..RawLineCount(video_id) |->
                                   SubtitleLine(5 * (i - 1), <<RawWords[i]>>)])]
    ELSE [exists |-> FALSE, text |-> <<>>]

\* what youtuber_summarize may return
Summary2 == [title_en |-> <<"U">>, summary_en |-> <<"S">>, title_zh |-> <<"u">>,
             summary_zh |-> <<"s">>, category |-> "skincare"]

Summaries == {Summary1, Summary2}

\* --- JSON text, as a sequence of tokens; an object is one token
NoValue == [none |-> TRUE]
Tok(t) == [t |-> t, v |-> NoValue]
ObjTok(c) == [t |-> "obj", v |-> c]

\* json.dump(chunks, f, indent=2, ensure_ascii=False) of a list of dicts
JsonDump(chunks) ==
    <<Tok("[")>> \o Join(<<Tok(",")>>, [i \in 1..Len(chunks) |-> <<ObjTok(chunks[i])>>])
        \o <<Tok("]")>>

\* json.loads(text) of a text of "[", "]", "," and objects: the list, or JSONDecodeError
JsonLoads(text) ==
    LET n == Len(text)
    IN  IF /\ n >= 2
           /\ text[1].t = "["
           /\ text[n].t = "]"
           /\ (n = 2 \/ n % 2 = 1)
           /\ \A i \in 2..(n - 1) : text[i].t = (IF i % 2 = 0 THEN "obj" ELSE ",")
        THEN [ok |-> TRUE, value |-> [i \in 1..((n - 1) \div 2) |-> text[2 * i].v]]
        ELSE [ok |-> FALSE, value |-> <<>>]

\* --- the state of a caller
NoFile == [exists |-> FALSE, data |-> <<>>]
NoSummary == [title_en |-> <<>>, summary_en |-> <<>>, title_zh |-> <<>>,
              summary_zh |-> <<>>, category |-> "none"]
NoLoc == [video_summary |-> NoSummary, chunks |-> <<>>]
NoArgs == [op |-> "none", variant |-> "none", youtuber |-> <<>>, video_id |-> <<>>,
           window_size |-> 0, step_size |-> 0]
RetNone == [kind |-> "None", list |-> <<>>, bool |-> FALSE]
RetList(l) == [kind |-> "list", list |-> l, bool |-> FALSE]
RetBool(b) == [kind |-> "bool", list |-> <<>>, bool |-> b]
NoLast == [op |-> "none", key |-> KeyOf(NoArgs), path |-> <<>>, branch |-> "none",
           outcome |-> "none", ret |-> RetNone]

CtInit ==
    /\ files = [f \in Paths |-> NoFile]
    /\ dirs = {}
    /\ pc = [p \in Procs |-> "idle"]
    /\ args = [p \in Procs |-> NoArgs]
    /\ loc = [p \in Procs |-> NoLoc]
    /\ last = [p \in Procs |-> NoLast]
    /\ calls = 0
    /\ n_summarize = [k \in Keys |-> 0]
    /\ n_summarized = [k \in Keys |-> 0]
    /\ n_window = [k \in Keys |-> 0]
    /\ n_built = [k \in Keys |-> 0]

\* what the cache's variables are while another component runs
CtIdle == CtInit

\* the call of caller p ends: it returns ret or raises the exception `outcome`
Finish(p, branch, outcome, ret) ==
    /\ pc' = [pc EXCEPT ![p] = "idle"]
    /\ last' = [last EXCEPT ![p] = [op |-> args[p].op, key |-> KeyOf(args[p]),
                                    path |-> PathOf(args[p]), branch |-> branch,
                                    outcome |-> outcome, ret |-> ret]]
    /\ args' = [args EXCEPT ![p] = NoArgs]
    /\ loc' = [loc EXCEPT ![p] = NoLoc]

\* (mutant) the method returns chunks, as YoutuberTranscriptProcessorEng does
ReturnValue_Chunks(variant, chunks) == RetList(chunks)

\* what chunk_transcript returns when it reaches its end: the Chinese processor
\* has `# return chunks` (line 525), the English one `return chunks` (line 182)
ReturnValue(variant, chunks) ==
    IF variant = "Chinese" THEN RetNone ELSE RetList(chunks)

\* chunk_transcript is entered: lines 495-497 (152-154), the directory is made
CtCall(p, a) ==
    /\ UNCHANGED not_ct
    /\ pc[p] = "idle"
    /\ calls < MaxCalls
    /\ calls' = calls + 1
    /\ args' = [args EXCEPT ![p] = a]
    /\ dirs' = dirs \cup {CacheDirOf(a.variant, a.youtuber, a.window_size, a.step_size)}
    /\ pc' = [pc EXCEPT ![p] = "exists"]
    /\ UNCHANGED <<files, loc, last, hist_vars>>

\* (mutant) the cached file is never found
FileExists_Never(path) == FALSE

\* file_path.exists()
FileExists(path) == files[path].exists

\* line 498 (155): if file_path.exists()
CtExists(p) ==
    /\ UNCHANGED not_ct
    /\ pc[p] = "exists"
    /\ pc' = [pc EXCEPT ![p] = IF FileExists(PathOf(args[p])) THEN "read" ELSE "load"]
    /\ UNCHANGED <<fs_vars, args, loc, last, calls, hist_vars>>

\* line 499 (156): chunks = json.loads(file_path.read_text()), then the return
CtRead(p) ==
    /\ UNCHANGED not_ct
    /\ pc[p] = "read"
    /\ LET r == JsonLoads(files[PathOf(args[p])].data)
       IN  IF r.ok
           THEN Finish(p, "hit", "returned", ReturnValue(args[p].variant, r.value))
           ELSE Finish(p, "hit", "JSONDecodeError", RetNone)
    /\ UNCHANGED <<fs_vars, calls, hist_vars>>

\* (mutant) the cache file is opened for writing before the transcript is loaded
CtLoad_LeavesFile(p) ==
    /\ UNCHANGED not_ct
    /\ pc[p] = "load"
    /\ IF RawFile(args[p].youtuber, args[p].video_id).exists
       THEN /\ pc' = [pc EXCEPT ![p] = "summarize"]
            /\ UNCHANGED <<args, loc, last, files>>
       ELSE /\ files' = [files EXCEPT ![PathOf(args[p])] = [exists |-> TRUE, data |-> <<>>]]
            /\ Finish(p, "miss", "FileNotFoundError", RetNone)
    /\ UNCHANGED <<dirs, calls, hist_vars>>

\* lines 502-504 (159-161): load_transcript opens data/<youtuber>/<video_id>.txt
CtLoad(p) ==
    /\ UNCHANGED not_ct
    /\ pc[p] = "load"
    /\ IF RawFile(args[p].youtuber, args[p].video_id).exists
       THEN /\ pc' = [pc EXCEPT ![p] = "summarize"]
            /\ UNCHANGED <<args, loc, last>>
       ELSE Finish(p, "miss", "FileNotFoundError", RetNone)
    /\ UNCHANGED <<fs_vars, calls, hist_vars>>

\* lines 507-511 (164-168): youtuber_summarize returns a summary
CtSummarize(p, summary) ==
    /\ UNCHANGED not_ct
    /\ pc[p] = "summarize"
    /\ n_summarize' = [n_summarize EXCEPT ![KeyOf(args[p])] = @ + 1]
    /\ n_summarized' = [n_summarized EXCEPT ![KeyOf(args[p])] = @ + 1]
    /\ loc' = [loc EXCEPT ![p].video_summary = summary]
    /\ pc' = [pc EXCEPT ![p] = "window"]
    /\ UNCHANGED <<fs_vars, args, last, calls, n_window, n_built>>

\* lines 507-511 (164-168): youtuber_summarize raises (the API call fails)
CtSummarizeRaises(p) ==
    /\ UNCHANGED not_ct
    /\ pc[p] = "summarize"
    /\ n_summarize' = [n_summarize EXCEPT ![KeyOf(args[p])] = @ + 1]
    /\ Finish(p, "miss", "SummarizerError", RetNone)
    /\ UNCHANGED <<fs_vars, calls, n_summarized, n_window, n_built>>

\* the chunks the miss branch builds for arguments a from the summary it got:
\* lines 504 and 514-521
BuildChunks(a, video_summary) ==
    sliding_window(a.video_id, a.youtuber,
                   split_video_to_multiple_transcript(RawFile(a.youtuber, a.video_id).text)[1],
                   video_summary, a.window_size, a.step_size)

\* lines 514-521: chunks = sliding_window(...)
CtWindow(p) ==
    /\ UNCHANGED not_ct
    /\ pc[p] = "window"
    /\ loc' = [loc EXCEPT ![p].chunks = BuildChunks(args[p], loc[p].video_summary)]
    /\ n_window' = [n_window EXCEPT ![KeyOf(args[p])] = @ + 1]
    /\ pc' = [pc EXCEPT ![p] = "save_open"]
    /\ UNCHANGED <<fs_vars, args, last, calls, n_summarize, n_summarized, n_built>>

\* save_transcript, line 538: open(file_path, "w") creates or truncates the file
CtSaveOpen(p) ==
    /\ UNCHANGED not_ct
    /\ pc[p] = "save_open"
    /\ files' = [files EXCEPT ![PathOf(args[p])] = [exists |-> TRUE, data |-> <<>>]]
    /\ pc' = [pc EXCEPT ![p] = "save_write"]
    /\ UNCHANGED <<dirs, args, loc, last, calls, hist_vars>>

\* the file once json.dump has written the list and the file is closed
SavedFile(chunks) == [exists |-> TRUE, data |-> JsonDump(chunks)]

\* save_transcript, line 539: json.dump writes the list; then the method ends
CtSaveWrite(p) ==
    /\ UNCHANGED not_ct
    /\ pc[p] = "save_write"
    /\ files' = [files EXCEPT ![PathOf(args[p])] = SavedFile(loc[p].chunks)]
    /\ n_built' = [n_built EXCEPT ![KeyOf(args[p])] = @ + 1]
    /\ Finish(p, "miss", "returned", ReturnValue(args[p].variant, loc[p].chunks))
    /\ UNCHANGED <<dirs, calls, n_summarize, n_summarized, n_window>>

\* has_cached_transcript(youtuber, video_id, window_size, step_size), clarify_agent.py
HasCached(p, a) ==
    /\ UNCHANGED not_ct
    /\ pc[p] = "idle"
    /\ calls < MaxCalls
    /\ calls' = calls + 1
    /\ LET path == HasCachedPath(a.youtuber, a.video_id, a.window_size, a.step_size)
       IN  last' = [last EXCEPT ![p] = [op |-> "has_cached_transcript", key |-> KeyOf(a),
                                        path |-> path, branch |-> "none",
                                        outcome |-> "returned",
                                        ret |-> RetBool(FileExists(path))]]
    /\ UNCHANGED <<fs_vars, pc, args, loc, hist_vars>>

\* no call is in progress
AllIdle == \A p \in Procs : pc[p] = "idle"

\* ------------------------------------------------------------------ JSON text
\* The text json.dump writes and json.loads reads, character by character. An
\* element of a text that is longer than one character (a dict key, the value of
\* the category enum) stands for that run of letters, none of which is escaped.
QUOTE == "\""
BACKSLASH == "\\"
TAB == "\t"

\* a JSON value of kind "str", "int", "list" or "dict"; a dict keeps its keys in
\* insertion order, keys[i] goes with items[i]
JStr(s) == [kind |-> "str", s |-> s, n |-> 0, keys |-> <<>>, items |-> <<>>]
JInt(n) == [kind |-> "int", s |-> <<>>, n |-> n, keys |-> <<>>, items |-> <<>>]
JList(items) == [kind |-> "list", s |-> <<>>, n |-> 0, keys |-> <<>>, items |-> items]
JDict(keys, items) == [kind |-> "dict", s |-> <<>>, n |-> 0, keys |-> keys, items |-> items]

\* the concatenation of a sequence of sequences
RECURSIVE Flatten(_)
Flatten(seqs) == IF Len(seqs) = 0 THEN <<>> ELSE Head(seqs) \o Flatten(Tail(seqs))

\* (mutant) the encoder writes every character as it is
EscapeChar_Raw(c) == <<c>>

\* json.dump, ensure_ascii=False: the characters of a string that are escaped
EscapeChar(c) ==
    IF c = QUOTE THEN <<BACKSLASH, QUOTE>>
    ELSE IF c = BACKSLASH THEN <<BACKSLASH, BACKSLASH>>
    ELSE IF c = NL THEN <<BACKSLASH, "n">>
    ELSE IF c = TAB THEN <<BACKSLASH, "t">>
    ELSE <<c>>

EncodeString(s) ==
    <<QUOTE>> \o Flatten([i \in 1..Len(s) |-> EscapeChar(s[i])]) \o <<QUOTE>>

\* indent=2: the spaces that start a line at nesting depth `level`
Indent(level) == [i \in 1..(2 * level) |-> " "]

\* json.dump(value, f, indent=2, ensure_ascii=False), value at nesting depth level
RECURSIVE Encode(_, _)
Encode(v, level) ==
    IF v.kind = "str" THEN EncodeString(v.s)
    ELSE IF v.kind = "int" THEN Str(v.n)
    ELSE IF v.kind = "list"
    THEN IF Len(v.items) = 0 THEN <<"[", "]">>
         ELSE <<"[", NL>>
              \o Join(<<",", NL>>, [i \in 1..Len(v.items) |->
                                      Indent(level + 1) \o Encode(v.items[i], level + 1)])
              \o <<NL>> \o Indent(level) \o <<"]">>
    ELSE IF Len(v.items) = 0 THEN <<"{", "}">>
         ELSE <<"{", NL>>
              \o Join(<<",", NL>>, [i \in 1..Len(v.items) |->
                                      Indent(level + 1) \o EncodeString(v.keys[i])
                                      \o <<":", " ">> \o Encode(v.items[i], level + 1)])
              \o <<NL>> \o Indent(level) \o <<"}">>

JsonDumpText(v) == Encode(v, 0)

\* --- json.loads: a recursive-descent reader; positions are 1-based
ParseFail == [ok |-> FALSE, value |-> JInt(0), next |-> 0]
ParseOk(v, next) == [ok |-> TRUE, value |-> v, next |-> next]

\* the first position >= i that holds no JSON whitespace
RECURSIVE SkipWs(_, _)
SkipWs(t, i) == IF i <= Len(t) /\ IsSpace(t[i]) THEN SkipWs(t, i + 1) ELSE i

\* the rest of a string whose opening quote has been read; acc is what was read
RECURSIVE ScanString(_, _, _)
ScanString(t, i, acc) ==
    IF i > Len(t) THEN ParseFail
    ELSE IF t[i] = QUOTE THEN ParseOk(JStr(acc), i + 1)
    ELSE IF t[i] = BACKSLASH
    THEN IF i + 1 > Len(t) THEN ParseFail
         ELSE IF t[i + 1] \in {QUOTE, BACKSLASH, "/"}
         THEN ScanString(t, i + 2, Append(acc, t[i + 1]))
         ELSE IF t[i + 1] = "n" THEN ScanString(t, i + 2, Append(acc, NL))
         ELSE IF t[i + 1] = "t" THEN ScanString(t, i + 2, Append(acc, TAB))
         ELSE IF t[i + 1] = "r" THEN ScanString(t, i + 2, Append(acc, "\r"))
         ELSE ParseFail
    ELSE IF t[i] \in {NL, TAB, "\r"} THEN ParseFail
    ELSE ScanString(t, i + 1, Append(acc, t[i]))

\* int(digits)
RECURSIVE ToInt(_)
ToInt(ds) ==
    IF Len(ds) = 0 THEN 0
    ELSE 10 * ToInt(SubSeq(ds, 1, Len(ds) - 1))
         + (CHOOSE d \in 0..9 : Digits[d + 1] = ds[Len(ds)])

\* a number made of digits only, without a leading zero
ScanInt(t, i) ==
    LET n == DigitRun(t, i)
    IN  IF n = 0 \/ (n > 1 /\ t[i] = "0") THEN ParseFail
        ELSE ParseOk(JInt(ToInt(SubSeq(t, i, i + n - 1))), i + n)

RECURSIVE ParseValue(_, _)
RECURSIVE ParseItems(_, _, _)
RECURSIVE ParseMembers(_, _, _, _)

\* a value that starts at position i
ParseValue(t, i) ==
    IF i > Len(t) THEN ParseFail
    ELSE IF t[i] = QUOTE THEN ScanString(t, i + 1, <<>>)
    ELSE IF IsDigit(t[i]) THEN ScanInt(t, i)
    ELSE IF t[i] = "["
    THEN LET j == SkipWs(t, i + 1)
         IN  IF j <= Len(t) /\ t[j] = "]" THEN ParseOk(JList(<<>>), j + 1)
             ELSE ParseItems(t, j, <<>>)
    ELSE IF t[i] = "{"
    THEN LET j == SkipWs(t, i + 1)
         IN  IF j <= Len(t) /\ t[j] = "}" THEN ParseOk(JDict(<<>>, <<>>), j + 1)
             ELSE ParseMembers(t, j, <<>>, <<>>)
    ELSE ParseFail

\* the items of an array from position i on, up to its "]"
ParseItems(t, i, acc) ==
    LET r == ParseValue(t, i)
        j == SkipWs(t, r.next)
    IN  IF ~r.ok THEN ParseFail
        ELSE IF j > Len(t) THEN ParseFail
        ELSE IF t[j] = "," THEN ParseItems(t, SkipWs(t, j + 1), Append(acc, r.value))
        ELSE IF t[j] = "]" THEN ParseOk(JList(Append(acc, r.value)), j + 1)
        ELSE ParseFail

\* the members of an object from position i on, up to its "}"
ParseMembers(t, i, keys, items) ==
    LET k == ScanString(t, i + 1, <<>>)
        c == SkipWs(t, k.next)
        r == ParseValue(t, SkipWs(t, c + 1))
        j == SkipWs(t, r.next)
    IN  IF i > Len(t) \/ t[i] # QUOTE THEN ParseFail
        ELSE IF ~k.ok THEN ParseFail
        ELSE IF c > Len(t) \/ t[c] # ":" THEN ParseFail
        ELSE IF ~r.ok THEN ParseFail
        ELSE IF j > Len(t) THEN ParseFail
        ELSE IF t[j] = ","
        THEN ParseMembers(t, SkipWs(t, j + 1), Append(keys, k.value.s), Append(items, r.value))
        ELSE IF t[j] = "}"
        THEN ParseOk(JDict(Append(keys, k.value.s), Append(items, r.value)), j + 1)
        ELSE ParseFail

\* json.loads(text): the value, or JSONDecodeError (ok = FALSE)
JsonLoadsText(t) ==
    LET r == ParseValue(t, SkipWs(t, 1))
    IN  IF r.ok /\ SkipWs(t, r.next) = Len(t) + 1
        THEN [ok |-> TRUE, value |-> r.value]
        ELSE [ok |-> FALSE, value |-> JInt(0)]

\* --- chunk records as JSON
\* the keys of the dict of youtube_process.py:360-372, in insertion order
ChunkKeys == <<"video_id", "youtuber", "title", "summary", "category", "title_zh",
               "summary_zh", "chunk_id", "start_time", "end_time", "content">>

\* the dict sliding_window appends, as the JSON value json.dump receives
ChunkToJson(c) ==
    JDict([i \in 1..Len(ChunkKeys) |-> <<ChunkKeys[i]>>],
          <<JStr(c.video_id), JStr(c.youtuber), JStr(c.title), JStr(c.summary),
            JStr(<<c.category>>), JStr(c.title_zh), JStr(c.summary_zh),
            JInt(c.chunk_id), JStr(c.start_time), JStr(c.end_time), JStr(c.content)>>)

ChunksToJson(chunks) == JList([i \in 1..Len(chunks) |-> ChunkToJson(chunks[i])])

\* a dict with the keys of a chunk, chunk_id an int and the other values strings
IsChunkShaped(v) ==
    /\ v.kind = "dict"
    /\ Len(v.keys) = Len(ChunkKeys)
    /\ \A i \in 1..Len(ChunkKeys) :
          /\ v.keys[i] = <<ChunkKeys[i]>>
          /\ v.items[i].kind = (IF ChunkKeys[i] = "chunk_id" THEN "int" ELSE "str")

\* a list of chunk-shaped records
IsChunkList(v) ==
    /\ v.kind = "list"
    /\ \A i \in 1..Len(v.items) : IsChunkShaped(v.items[i])

\* ------------------------------------------- one cache entry, as text on disk
\* chunk records whose strings hold the characters JSON treats specially
PayloadWindow(content) ==
    <<[time |-> FormatTimestamp(0), text |-> content],
      [time |-> FormatTimestamp(5), text |-> <<"b">>]>>

PayloadChunk(title, content, chunk_id) ==
    ProcessChunk(<<"v", "1">>, <<"a">>, [Summary1 EXCEPT !.title_en = title],
                 chunk_id, PayloadWindow(content))

PayloadChunks ==
    {PayloadChunk(<<"T">>, <<"H", "i">>, 1),
     PayloadChunk(<<QUOTE, BACKSLASH, "}", TAB>>, <<"a", NL, "]", ",", "{">>, 12)}

\* the lists of chunk records handed to save_transcript
RECURSIVE ListsUpTo(_, _)
ListsUpTo(S, n) ==
    IF n = 0 THEN {<<>>}
    ELSE LET shorter == ListsUpTo(S, n - 1)
         IN  shorter \cup {Append(l, x) : l \in shorter, x \in S}

PayloadLists == ListsUpTo(PayloadChunks, MaxChunks)

\* payloads that something other than save_transcript left under a cache key
ExternalValues ==
    {JDict(<<>>, <<>>),
     JInt(5),
     JStr(<<"x">>),
     JList(<<JInt(5)>>),
     JList(<<JDict(<<<<"summary">>, <<"title">>>>, <<JStr(<<"s">>), JStr(<<"t">>)>>)>>),
     ChunkToJson(PayloadChunk(<<"T">>, <<"H", "i">>, 1)),
     JList(<<ChunkToJson(PayloadChunk(<<"T">>, <<"H", "i">>, 1)), JStr(<<"x">>)>>),
     ChunksToJson(<<PayloadChunk(<<"T">>, <<"H", "i">>, 1)>>)}

NoTextFile == [exists |-> FALSE, text |-> <<>>]
TextFile(text) == [exists |-> TRUE, text |-> text]

\* what a reader got: the reader, how its call ended, and the value it returned
NoRead == [reader |-> "none", outcome |-> "none", kind |-> "None", value |-> JInt(0)]
ReadRaised(reader, error) ==
    [reader |-> reader, outcome |-> error, kind |-> "None", value |-> JInt(0)]
ReadNone(reader) ==
    [reader |-> reader, outcome |-> "returned", kind |-> "None", value |-> JInt(0)]
ReadValue(reader, v) ==
    [reader |-> reader, outcome |-> "returned", kind |-> "value", value |-> v]

PlInit ==
    /\ pl_pc \in {"start", "external"}
    /\ pl_read = NoRead
    /\ IF pl_pc = "start"
       THEN /\ pl_chunks \in PayloadLists
            /\ pl_file = NoTextFile
       ELSE /\ pl_chunks = <<>>
            /\ pl_file \in {TextFile(JsonDumpText(v)) : v \in ExternalValues}

\* what this component's variables are while another component runs
PlIdle ==
    /\ pl_pc = "idle"
    /\ pl_read = NoRead
    /\ pl_chunks = <<>>
    /\ pl_file = NoTextFile

\* save_transcript, line 538: open(file_path, "w", encoding="utf-8")
PlSaveOpen ==
    /\ UNCHANGED not_pl
    /\ pl_pc = "start"
    /\ pl_file' = TextFile(<<>>)
    /\ pl_pc' = "opened"
    /\ UNCHANGED <<pl_chunks, pl_read>>

\* save_transcript, line 539: json.dump(chunks, f, indent=2, ensure_ascii=False),
\* and the file is closed
PlSaveWrite ==
    /\ UNCHANGED not_pl
    /\ pl_pc = "opened"
    /\ pl_file' = TextFile(JsonDumpText(ChunksToJson(pl_chunks)))
    /\ pl_pc' = "saved"
    /\ UNCHANGED <<pl_chunks, pl_read>>

\* what is on disk when the process dies after k characters of `full` were written
CrashText(full, k) == SubSeq(full, 1, k)

\* the process dies inside save_transcript, between line 538 and the end of line 539
PlCrash(k) ==
    /\ UNCHANGED not_pl
    /\ pl_pc = "opened"
    /\ k < Len(JsonDumpText(ChunksToJson(pl_chunks)))
    /\ pl_file' = TextFile(CrashText(JsonDumpText(ChunksToJson(pl_chunks)), k))
    /\ pl_pc' = "crashed"
    /\ UNCHANGED <<pl_chunks, pl_read>>

\* the entry is on disk and nobody is writing it
PlReadable == pl_pc \in {"saved", "crashed", "external"} /\ pl_file.exists

\* (mutant) a text that does not parse is read as the empty list
LoadText_EmptyOnError(text) ==
    IF JsonLoadsText(text).ok THEN JsonLoadsText(text)
    ELSE [ok |-> TRUE, value |-> JList(<<>>)]

\* json.loads(file_path.read_text(encoding="utf-8")) / json.load(f)
LoadText(text) == JsonLoadsText(text)

\* chunk_transcript, lines 498-499 and 525: the hit branch loads the file and
\* the method ends without a return statement
PlReadHit ==
    /\ UNCHANGED not_pl
    /\ PlReadable
    /\ pl_read' = IF LoadText(pl_file.text).ok
                  THEN ReadNone("chunk_transcript")
                  ELSE ReadRaised("chunk_transcript", "JSONDecodeError")
    /\ UNCHANGED <<pl_chunks, pl_file, pl_pc>>

\* check_index_es, youtube_search.py:248-268: chunks = json.load(f); return chunks
PlReadCheckIndex ==
    /\ UNCHANGED not_pl
    /\ PlReadable
    /\ pl_read' = IF LoadText(pl_file.text).ok
                  THEN ReadValue("check_index_es", LoadText(pl_file.text).value)
                  ELSE ReadRaised("check_index_es", "JSONDecodeError")
    /\ UNCHANGED <<pl_chunks, pl_file, pl_pc>>

\* Python's v[0]
Subscript0(v) ==
    IF v.kind = "list"
    THEN IF Len(v.items) > 0 THEN [error |-> "none", value |-> v.items[1]]
         ELSE [error |-> "IndexError", value |-> JInt(0)]
    ELSE IF v.kind = "str"
    THEN IF Len(v.s) > 0 THEN [error |-> "none", value |-> JStr(<<v.s[1]>>)]
         ELSE [error |-> "IndexError", value |-> JInt(0)]
    ELSE IF v.kind = "dict" THEN [error |-> "KeyError", value |-> JInt(0)]
    ELSE [error |-> "TypeError", value |-> JInt(0)]

\* Python's v[key] for a str key
SubscriptKey(v, key) ==
    IF v.kind = "dict"
    THEN IF \E i \in 1..Len(v.keys) : v.keys[i] = <<key>>
         THEN [error |-> "none",
               value |-> v.items[CHOOSE i \in 1..Len(v.keys) : v.keys[i] = <<key>>]]
         ELSE [error |-> "KeyError", value |-> JInt(0)]
    ELSE [error |-> "TypeError", value |-> JInt(0)]

\* list_cached_videos, clarify_agent.py:322-325, on one file: json.load, then
\* chunks[0]["summary"] and chunks[0]["title"]
ListEntryOf(text) ==
    LET r       == LoadText(text)
        first   == Subscript0(r.value)
        summary == SubscriptKey(first.value, "summary")
        title   == SubscriptKey(first.value, "title")
    IN  IF ~r.ok THEN [error |-> "JSONDecodeError", title |-> JInt(0), summary |-> JInt(0)]
        ELSE IF first.error # "none"
        THEN [error |-> first.error, title |-> JInt(0), summary |-> JInt(0)]
        ELSE IF summary.error # "none"
        THEN [error |-> summary.error, title |-> JInt(0), summary |-> JInt(0)]
        ELSE IF title.error # "none"
        THEN [error |-> title.error, title |-> JInt(0), summary |-> JInt(0)]
        ELSE [error |-> "none", title |-> title.value, summary |-> summary.value]

\* list_cached_videos over a namespace that holds this one file
PlReadList ==
    /\ UNCHANGED not_pl
    /\ PlReadable
    /\ LET e == ListEntryOf(pl_file.text)
       IN  pl_read' = IF e.error = "none"
                      THEN ReadValue("list_cached_videos",
                                     JList(<<JDict(<<<<"title">>, <<"summary">>>>,
                                                   <<e.title, e.summary>>)>>))
                      ELSE ReadRaised("list_cached_videos", e.error)
    /\ UNCHANGED <<pl_chunks, pl_file, pl_pc>>

\* create_index, youtube_search.py:110-119 (ensure_es_index 228-233,
\* create_minsearch_index 344-349): json.load, ValueError unless a list, then
\* combined.extend(data)
PlReadCreateIndex ==
    /\ UNCHANGED not_pl
    /\ PlReadable
    /\ LET r == LoadText(pl_file.text)
       IN  pl_read' = IF ~r.ok THEN ReadRaised("create_index", "JSONDecodeError")
                      ELSE IF r.value.kind # "list"
                      THEN ReadRaised("create_index", "ValueError")
                      ELSE ReadValue("create_index", r.value)
    /\ UNCHANGED <<pl_chunks, pl_file, pl_pc>>

\* ----------------------------------------------------------- list_cached_videos
\* s.startswith(prefix), s.endswith(suffix)
StartsWith(s, prefix) == Len(s) >= Len(prefix) /\ SubSeq(s, 1, Len(prefix)) = prefix
EndsWith(s, suffix) ==
    Len(s) >= Len(suffix) /\ SubSeq(s, Len(s) - Len(suffix) + 1, Len(s)) = suffix

\* the first position >= i where sep occurs in s, or 0
RECURSIVE FindFrom(_, _, _)
FindFrom(s, sep, i) ==
    IF i + Len(sep) - 1 > Len(s) THEN 0
    ELSE IF SubSeq(s, i, i + Len(sep) - 1) = sep THEN i
    ELSE FindFrom(s, sep, i + 1)

\* s.split(sep) for a non-empty sep
RECURSIVE SplitOn(_, _)
SplitOn(s, sep) ==
    LET k == FindFrom(s, sep, 1)
    IN  IF k = 0 THEN <<s>>
        ELSE <<SubSeq(s, 1, k - 1)>> \o SplitOn(SubSeq(s, k + Len(sep), Len(s)), sep)

\* the position of the last occurrence of character c in s, or 0
RECURSIVE LastIndexOf(_, _)
LastIndexOf(s, c) ==
    IF Len(s) = 0 THEN 0
    ELSE IF s[Len(s)] = c THEN Len(s)
    ELSE LastIndexOf(SubSeq(s, 1, Len(s) - 1), c)

\* Path.parent, Path.name and Path.stem of a path with at least one "/"
DirName(path) == SubSeq(path, 1, LastIndexOf(path, "/") - 1)
BaseName(path) == SubSeq(path, LastIndexOf(path, "/") + 1, Len(path))
Stem(path) ==
    LET name == BaseName(path)
        dot  == LastIndexOf(name, ".")
    IN  IF dot <= 1 THEN name ELSE SubSeq(name, 1, dot - 1)

JsonSuffix == <<".", "j", "s", "o", "n">>

\* f"https://www.youtube.com/watch?v={parts[1]}"; the prefix is one element
VideoUrl(video_id) == <<"https://www.youtube.com/watch?v=">> \o video_id

\* cache_dir of list_cached_videos, clarify_agent.py:315
ListCacheDir(youtuber, window_size, step_size) ==
    CACHE_DATA_DIR \o <<"/">> \o youtuber \o <<"_">> \o Str(window_size) \o <<"_">>
        \o Str(step_size) \o <<"_", "C", "h", "i", "n", "e", "s", "e">>

\* cache_dir.glob(f"{youtuber}_*.json"): the files of the directory that match
GlobVideos(dir, youtuber) ==
    {f \in DOMAIN files :
        /\ files[f].exists
        /\ DirName(f) = dir
        /\ StartsWith(BaseName(f), youtuber \o <<"_">>)
        /\ EndsWith(BaseName(f), JsonSuffix)
        /\ Len(BaseName(f)) >= Len(youtuber) + 1 + Len(JsonSuffix)}

\* --- the namespaces list_cached_videos is asked about
\* v1 has a transcript of RawLines lines, v0 one of a single line (no window of
\* two entries, hence no chunk), and the third id holds the youtuber's name
\* followed by "_"
ListVideoIds == {<<"v", "1">>, <<"v", "0">>, <<"x", "a", "_", "y">>}
ListArgs ==
    {ArgsOf("Chinese", y, i, ws) : y \in Youtubers, i \in ListVideoIds, ws \in WindowSteps}
ListPaths == {PathOf(a) : a \in ListArgs}
ListDirs == {DirName(f) : f \in ListPaths}

NoList == [outcome |-> "none", value |-> <<>>]

LcIdle ==
    /\ lc_pc = "idle"
    /\ lc_args = NoArgs
    /\ lc_todo = {}
    /\ lc_out = <<>>
    /\ lc_ret = NoList

\* the cache as calls of chunk_transcript that ran to their end leave it: each
\* key has no file, or the file save_transcript wrote for the chunks built from
\* the video's transcript and the summary the summarizer returned; a directory
\* exists once chunk_transcript was entered for its namespace (line 496)
LcInit ==
    /\ LcIdle
    /\ \E pick \in [ListArgs -> {"absent", "built1", "built2"}] :
          /\ \A a \in ListArgs : a.window_size = OtherWindow => pick[a] # "built2"
          /\ files = [f \in ListPaths |->
                        LET a == CHOOSE a \in ListArgs : PathOf(a) = f
                        IN  IF pick[a] = "absent" THEN NoFile
                            ELSE SavedFile(BuildChunks(a, IF pick[a] = "built1"
                                                          THEN Summary1 ELSE Summary2))]
    /\ dirs \in SUBSET ListDirs
    /\ \A f \in ListPaths : files[f].exists => DirName(f) \in dirs
    /\ pc = [p \in Procs |-> "idle"]
    /\ args = [p \in Procs |-> NoArgs]
    /\ loc = [p \in Procs |-> NoLoc]
    /\ last = [p \in Procs |-> NoLast]
    /\ calls = 0
    /\ n_summarize = [k \in Keys |-> 0]
    /\ n_summarized = [k \in Keys |-> 0]
    /\ n_window = [k \in Keys |-> 0]
    /\ n_built = [k \in Keys |-> 0]

\* list_cached_videos(youtuber, window_size, step_size), lines 315-321: [] when
\* the directory does not exist, else the loop over the files glob yields
LcCall(youtuber, ws) ==
    /\ UNCHANGED not_lc
    /\ lc_pc = "idle"
    /\ lc_ret = NoList
    /\ lc_args' = [ArgsOf("Chinese", youtuber, <<>>, ws) EXCEPT !.op = "list_cached_videos"]
    /\ lc_out' = <<>>
    /\ IF ListCacheDir(youtuber, ws[1], ws[2]) \in dirs
       THEN /\ lc_pc' = "loop"
            /\ lc_todo' = GlobVideos(ListCacheDir(youtuber, ws[1], ws[2]), youtuber)
            /\ lc_ret' = lc_ret
       ELSE /\ lc_pc' = "idle"
            /\ lc_todo' = {}
            /\ lc_ret' = [outcome |-> "returned", value |-> <<>>]

\* chunks[0] of the list json.load returned, lines 323-325
FirstChunk(data) ==
    LET r == JsonLoads(data)
    IN  IF ~r.ok THEN [error |-> "JSONDecodeError", chunk |-> NoValue]
        ELSE IF Len(r.value) = 0 THEN [error |-> "IndexError", chunk |-> NoValue]
        ELSE [error |-> "none", chunk |-> r.value[1]]

\* lines 327-335: the record appended for file f, if the stem splits in two
VideoRecords(f, youtuber, chunk) ==
    LET parts == SplitOn(Stem(f), youtuber \o <<"_">>)
    IN  IF Len(parts) = 2
        THEN <<[title |-> chunk.title, summary |-> chunk.summary,
                url |-> VideoUrl(parts[2])]>>
        ELSE <<>>

\* one iteration of the loop of lines 321-335, on the file glob yields next (in
\* whatever order the directory is listed)
LcVisit(f) ==
    /\ UNCHANGED not_lc
    /\ lc_pc = "loop"
    /\ f \in lc_todo
    /\ lc_todo' = lc_todo \ {f}
    /\ IF FirstChunk(files[f].data).error # "none"
       THEN /\ lc_pc' = "idle"
            /\ lc_ret' = [outcome |-> FirstChunk(files[f].data).error, value |-> <<>>]
            /\ lc_out' = lc_out
       ELSE /\ lc_pc' = "loop"
            /\ lc_ret' = lc_ret
            /\ lc_out' = lc_out \o VideoRecords(f, lc_args.youtuber,
                                                FirstChunk(files[f].data).chunk)
    /\ UNCHANGED lc_args

\* line 336: return video_url
LcReturn ==
    /\ UNCHANGED not_lc
    /\ lc_pc = "loop"
    /\ lc_todo = {}
    /\ lc_pc' = "idle"
    /\ lc_ret' = [outcome |-> "returned", value |-> lc_out]
    /\ UNCHANGED <<lc_args, lc_todo, lc_out>>

\* ---------------------------------------------------------------- search indexes
\* the searchers' callers, the creators they search, and the videos
IxProcs == {"s1", "s2"}
IxYoutubers == {<<"a">>, <<"b">>}
IxVideos == {<<<<"a">>, <<"v", "1">>>>, <<<<"a">>, <<"x", "a", "_", "y">>>>,
             <<<<"b">>, <<"v", "1">>>>}

\* self.cache_dir of YoutuberTranscriptSearcher, youtube_search.py:180 (the
\* argument cache_dir is overwritten)
SearcherCacheDir(youtuber) ==
    CACHE_DATA_DIR \o <<"/">> \o youtuber
        \o <<"_", "1", "5", "_", "3", "_", "C", "h", "i", "n", "e", "s", "e">>

\* self.cache_dir of YoutuberTranscriptSearcherPre, line 48
PreCacheDir(youtuber, window_size, step_size) ==
    CACHE_DATA_DIR \o <<"/">> \o youtuber \o <<"_">> \o Str(window_size)
        \o <<"_">> \o Str(step_size)

\* search_file_path of load_or_create_minsearch_index, line 332
SearcherBlobPath(youtuber) == SearcherCacheDir(youtuber) \o <<"/", "search_tools.bin">>

\* self.search_file_path of YoutuberTranscriptSearcherPre, lines 49-52
PreBlobPath(youtuber, window_size, step_size) ==
    CACHE_DATA_DIR \o <<"/", "search_tool", "/">> \o youtuber
        \o <<"/", "search_tools_">> \o Str(window_size) \o <<"_">> \o Str(step_size)
        \o <<".bin">>

\* the chunk file of a video in the namespace the searchers read
IxPath(yv) == CacheFile(ChineseCacheDir(yv[1], DefaultWindow, DefaultStep), yv[1], yv[2])
IxPaths == {IxPath(yv) : yv \in IxVideos}

\* the chunks chunk_transcript(video_id) of a processor of that creator saves
IxChunks(yv) ==
    BuildChunks(ArgsOf("Chinese", yv[1], yv[2], <<DefaultWindow, DefaultStep>>), Summary1)

\* self.cache_dir.glob("*.json")
GlobJson(dir) ==
    {f \in DOMAIN files :
        files[f].exists /\ DirName(f) = dir /\ EndsWith(BaseName(f), JsonSuffix)}

\* the chunks of all chunk files of a directory
CachedChunkSet(dir) ==
    UNION {{JsonLoads(files[f].data).value[i] :
               i \in 1..Len(JsonLoads(files[f].data).value)} : f \in GlobJson(dir)}

\* the elements of a finite set of paths, one after the other (the order in
\* which glob yields the files is not modelled)
RECURSIVE SeqOfSet(_)
SeqOfSet(S) ==
    IF S = {} THEN <<>>
    ELSE LET x == CHOOSE x \in S : TRUE IN <<x>> \o SeqOfSet(S \ {x})

\* the loop of lines 110-119 (228-233, 344-349): combined, or the error json.load
\* raises on the first file that does not parse
RECURSIVE CombineFiles(_)
CombineFiles(fs) ==
    IF Len(fs) = 0 THEN [error |-> "none", docs |-> <<>>]
    ELSE IF ~JsonLoads(files[fs[1]].data).ok THEN [error |-> "JSONDecodeError", docs |-> <<>>]
    ELSE IF CombineFiles(Tail(fs)).error # "none" THEN CombineFiles(Tail(fs))
    ELSE [error |-> "none",
          docs |-> JsonLoads(files[fs[1]].data).value \o CombineFiles(Tail(fs)).docs]

\* (mutant) only the first chunk file is read
ReadCombined_FirstOnly(dir) ==
    CombineFiles(SubSeq(SeqOfSet(GlobJson(dir)), 1, Min(1, Cardinality(GlobJson(dir)))))

ReadCombined(dir) == CombineFiles(SeqOfSet(GlobJson(dir)))

\* a searcher that has not been constructed
NoCfg == [cls |-> "none", youtuber |-> <<>>, index_name |-> "none", cache_dir |-> <<>>]
NoResult == [op |-> "none", outcome |-> "none", docs |-> <<>>, found |-> "none",
             rebuilt |-> FALSE, partial |-> FALSE, late |-> {}, k |-> 0, ret |-> <<>>]
NoBlob == [exists |-> FALSE, ok |-> FALSE, docs |-> <<>>]
NoMem == [loaded |-> FALSE, docs |-> <<>>]
NoCollection == [exists |-> FALSE, docs |-> <<>>, visible |-> 0, due |-> {}]

IndexNames == {"youtube_bilingual", "other"}

BlobPaths ==
    {SearcherBlobPath(y) : y \in IxYoutubers}
    \cup {PreBlobPath(y, DefaultWindow, DefaultStep) : y \in IxYoutubers}

\* the variables of the searchers while another component runs
IxIdle ==
    /\ ix_pc = [p \in IxProcs |-> "none"]
    /\ ix_cfg = [p \in IxProcs |-> NoCfg]
    /\ ix_combined = [p \in IxProcs |-> <<>>]
    /\ ix_i = [p \in IxProcs |-> 0]
    /\ ix_mem = [p \in IxProcs |-> NoMem]
    /\ ix_last = [p \in IxProcs |-> NoResult]
    /\ ix_blob = [b \in BlobPaths |-> NoBlob]
    /\ es = [n \in IndexNames |-> NoCollection]
    /\ ix_late = [n \in IndexNames |-> {}]
    /\ ix_recovered = {}
    /\ ix_calls = 0

\* the callers of the cache are idle while the searchers run
CallersIdle ==
    /\ dirs = {}
    /\ pc = [p \in Procs |-> "idle"]
    /\ args = [p \in Procs |-> NoArgs]
    /\ loc = [p \in Procs |-> NoLoc]
    /\ last = [p \in Procs |-> NoLast]
    /\ calls = 0
    /\ n_summarize = [k \in Keys |-> 0]
    /\ n_summarized = [k \in Keys |-> 0]
    /\ n_window = [k \in Keys |-> 0]
    /\ n_built = [k \in Keys |-> 0]

\* the chunk files when the searchers start: each video's file is absent or is
\* what chunk_transcript saved; the file of the second video of creator "a" may
\* be what a call that died inside save_transcript left (opened, nothing written)
\* the creators the lexical searchers are constructed for
LxYoutubers == {<<"a">>}

IxPicks ==
    {pick \in [IxVideos -> {"absent", "saved", "cut"}] :
        \A yv \in IxVideos : pick[yv] = "cut" => yv = <<<<"a">>, <<"x", "a", "_", "y">>>>}

IxFiles(pick) ==
    [f \in IxPaths |->
        LET yv == CHOOSE yv \in IxVideos : IxPath(yv) = f
        IN  IF pick[yv] = "absent" THEN NoFile
            ELSE IF pick[yv] = "saved" THEN SavedFile(IxChunks(yv))
            ELSE [exists |-> TRUE, data |-> <<>>]]

IxFilesInit == \E pick \in IxPicks : files = IxFiles(pick)

\* the chunk file of video v1 of creator "a" in the directory that
\* YoutuberTranscriptProcessorEng writes (youtube_process.py:155-157) and
\* YoutuberTranscriptSearcherPre reads
PreVideoPath ==
    CacheFile(PreCacheDir(<<"a">>, DefaultWindow, DefaultStep), <<"a">>, <<"v", "1">>)

\* the chunk files when the lexical searchers start: that file is absent
LxFilesInit ==
    \E pick \in {q \in IxPicks : \A yv \in IxVideos : yv[1] \notin LxYoutubers => q[yv] = "absent"} :
        files = [f \in IxPaths \cup {PreVideoPath} |->
                    IF f \in IxPaths THEN IxFiles(pick)[f] ELSE NoFile]

\* no searcher is inside a constructor or a call
AllSearchersIdle == \A p \in IxProcs : ix_pc[p] \in {"none", "ready"}

\* no searcher is inside the branch of ensure_es_index that builds collection n
NoBuilder(n) ==
    \A p \in IxProcs : ~(ix_cfg[p].index_name = n /\ ix_pc[p] \in {"vx_create", "vx_read", "vx_index"})

\* a call chunk_transcript(video_id) of the creator's processor took the miss
\* branch and ran to its end: the chunk file of the video is saved
IxCacheVideo(yv) ==
    /\ UNCHANGED not_ix
    /\ ix_calls < MaxIxCalls
    /\ ix_calls' = ix_calls + 1
    /\ ~files[IxPath(yv)].exists
    /\ files' = [files EXCEPT ![IxPath(yv)] = SavedFile(IxChunks(yv))]
    /\ ix_late' = [n \in IndexNames |->
                     IF es[n].exists /\ NoBuilder(n)
                     THEN ix_late[n] \cup {IxPath(yv)} ELSE ix_late[n]]
    /\ UNCHANGED <<ix_pc, ix_cfg, ix_combined, ix_i, ix_mem, ix_last, ix_blob, es,
                   ix_recovered>>

\* --- the lexical backend: YoutuberTranscriptSearcherPre, and
\* YoutuberTranscriptSearcher with backend="minsearch"
\* self.cache_dir after lines 177 and 180: line 180 assigns it again, whatever
\* the argument was
SelfCacheDir(youtuber, cache_dir) == SearcherCacheDir(youtuber)

\* the directory whose chunk files a lexical searcher indexes
LexCacheDir(cfg) ==
    IF cfg.cls = "Pre" THEN PreCacheDir(cfg.youtuber, DefaultWindow, DefaultStep)
    ELSE SelfCacheDir(cfg.youtuber, cfg.cache_dir)

\* the file that holds its pickled index
LexBlobPath(cfg) ==
    IF cfg.cls = "Pre" THEN PreBlobPath(cfg.youtuber, DefaultWindow, DefaultStep)
    ELSE SelfCacheDir(cfg.youtuber, cfg.cache_dir) \o <<"/", "search_tools.bin">>

\* the pickled indexes when the searchers start: absent, or unreadable
\* the values of the argument cache_dir: None, the directory of line 180, and
\* another directory of chunk files
CacheDirArgs ==
    {<<>>, SearcherCacheDir(<<"a">>), PreCacheDir(<<"a">>, DefaultWindow, DefaultStep)}

LxBlobPaths ==
    {SearcherBlobPath(y) : y \in LxYoutubers}
    \cup {PreBlobPath(y, DefaultWindow, DefaultStep) : y \in LxYoutubers}

LxBlobInit ==
    \E pick \in [LxBlobPaths -> {NoBlob, [exists |-> TRUE, ok |-> FALSE, docs |-> <<>>]}] :
        ix_blob = [b \in BlobPaths |-> IF b \in LxBlobPaths THEN pick[b] ELSE NoBlob]

LxInit ==
    /\ ix_pc = [p \in IxProcs |-> "none"]
    /\ ix_cfg = [p \in IxProcs |-> NoCfg]
    /\ ix_combined = [p \in IxProcs |-> <<>>]
    /\ ix_i = [p \in IxProcs |-> 0]
    /\ ix_mem = [p \in IxProcs |-> NoMem]
    /\ ix_last = [p \in IxProcs |-> NoResult]
    /\ LxBlobInit
    /\ es = [n \in IndexNames |-> NoCollection]
    /\ ix_late = [n \in IndexNames |-> {}]
    /\ ix_recovered = {}
    /\ ix_calls = 0
    /\ LxFilesInit
    /\ CallersIdle

\* a call chunk_transcript("v1") of YoutuberTranscriptProcessorEng("a") took
\* the miss branch and ran to its end, youtube_process.py:155-182: the chunk
\* file is saved (its chunks stand for the English ones)
LxCacheVideoEng ==
    /\ UNCHANGED not_ix
    /\ ix_calls < MaxIxCalls
    /\ ix_calls' = ix_calls + 1
    /\ ~files[PreVideoPath].exists
    /\ files' = [files EXCEPT ![PreVideoPath] = SavedFile(IxChunks(<<<<"a">>, <<"v", "1">>>>))]
    /\ UNCHANGED <<ix_pc, ix_cfg, ix_combined, ix_i, ix_mem, ix_last, ix_blob, es,
                   ix_late, ix_recovered>>

\* YoutuberTranscriptSearcherPre(youtuber), lines 47-52: the paths are set
\* (nothing is read or written, and the call is not counted)
LxConstructPre(p, youtuber) ==
    /\ UNCHANGED <<not_ix, files>>
    /\ ix_pc[p] = "none"
    /\ ix_cfg' = [ix_cfg EXCEPT ![p] = [cls |-> "Pre", youtuber |-> youtuber,
                                        index_name |-> "none", cache_dir |-> <<>>]]
    /\ ix_pc' = [ix_pc EXCEPT ![p] = "ready"]
    /\ UNCHANGED <<ix_combined, ix_i, ix_mem, ix_last, ix_blob, es, ix_late, ix_recovered,
                   ix_calls>>

\* YoutuberTranscriptSearcher(youtuber, backend="minsearch", cache_dir=cache_dir),
\* lines 174-190: `not self.cache_dir` (line 188) is false for the path of line
\* 180; the constructor calls load_or_create_minsearch_index. cfg.cache_dir
\* keeps the argument (<<>> for None or "")
LxConstructSearcher(p, youtuber, cache_dir) ==
    /\ UNCHANGED <<not_ix, files>>
    /\ ix_pc[p] = "none"
    /\ ix_calls < MaxIxCalls
    /\ ix_calls' = ix_calls + 1
    /\ SelfCacheDir(youtuber, cache_dir) # <<>>
    /\ ix_cfg' = [ix_cfg EXCEPT ![p] = [cls |-> "Searcher", youtuber |-> youtuber,
                                        index_name |-> "none", cache_dir |-> cache_dir]]
    /\ ix_pc' = [ix_pc EXCEPT ![p] = "lx_exists"]
    /\ ix_last' = [ix_last EXCEPT ![p] = NoResult]
    /\ UNCHANGED <<ix_combined, ix_i, ix_mem, ix_blob, es, ix_late, ix_recovered>>

\* YoutuberTranscriptSearcher(youtuber, backend=b) with b neither
\* "elasticsearch" nor "minsearch", lines 174-192: ValueError
LxConstructBadBackend(p, youtuber) ==
    /\ UNCHANGED <<not_ix, files>>
    /\ ix_pc[p] = "none"
    /\ ix_calls < MaxIxCalls
    /\ ix_calls' = ix_calls + 1
    /\ ix_last' = [ix_last EXCEPT ![p] = [NoResult EXCEPT !.op = "construct_other",
                                                           !.outcome = "ValueError"]]
    /\ UNCHANGED <<ix_pc, ix_cfg, ix_combined, ix_i, ix_mem, ix_blob, es, ix_late,
                   ix_recovered>>

\* YoutuberTranscriptSearcherPre.search, line 65: load_or_create_index is called
LxSearchPre(p) ==
    /\ UNCHANGED <<not_ix, files>>
    /\ ix_pc[p] = "ready"
    /\ ix_cfg[p].cls = "Pre"
    /\ ix_calls < MaxIxCalls
    /\ ix_calls' = ix_calls + 1
    /\ ix_pc' = [ix_pc EXCEPT ![p] = "lx_exists"]
    /\ ix_last' = [ix_last EXCEPT ![p] = NoResult]
    /\ UNCHANGED <<ix_cfg, ix_combined, ix_i, ix_mem, ix_blob, es, ix_late, ix_recovered>>

\* the values of k a caller passes to search
SearchKs == {1, 2}

\* the text a chunk is embedded from, line 280
EmbedText(c) == c.title_zh \o <<" ">> \o c.content

\* the scores a query can give the documents: the score of a document is a
\* function of the query and of the document's text (the embedder and the
\* similarity are outside the repository); documents of different text are
\* given different scores
Scorings(docs) ==
    LET texts == {EmbedText(docs[i]) : i \in 1..Len(docs)}
    IN  {sc \in [texts -> 1..Cardinality(texts)] :
            \A t, u \in texts : sc[t] = sc[u] => t = u}

\* the documents in the order of the backend: descending by score
RECURSIVE RankDocs(_, _)
RankDocs(docs, sc) ==
    IF docs = <<>> THEN <<>>
    ELSE LET best == CHOOSE i \in 1..Len(docs) :
                         \A j \in 1..Len(docs) :
                             \/ sc[EmbedText(docs[j])] < sc[EmbedText(docs[i])]
                             \/ sc[EmbedText(docs[j])] = sc[EmbedText(docs[i])] /\ i <= j
         IN  <<docs[best]>>
                 \o RankDocs(SubSeq(docs, 1, best - 1) \o SubSeq(docs, best + 1, Len(docs)), sc)

\* the k best documents
TopK(docs, sc, k) == SubSeq(RankDocs(docs, sc), 1, Min(k, Len(docs)))

\* search(query_text, k) with backend "minsearch", lines 372-373 and 364: the
\* index loaded by the constructor answers with the documents it was fitted on
LxSearchMem(p, k) ==
    /\ UNCHANGED <<not_ix, files>>
    /\ ix_pc[p] = "ready"
    /\ ix_cfg[p].cls = "Searcher"
    /\ ix_cfg[p].index_name = "none"
    /\ ix_calls < MaxIxCalls
    /\ ix_calls' = ix_calls + 1
    /\ \E sc \in Scorings(ix_mem[p].docs) :
          ix_last' = [ix_last EXCEPT ![p] =
                         [NoResult EXCEPT !.op = "search", !.outcome = "returned",
                                          !.docs = ix_mem[p].docs, !.k = k,
                                          !.ret = TopK(ix_mem[p].docs, sc, k)]]
    /\ UNCHANGED <<ix_pc, ix_cfg, ix_combined, ix_i, ix_mem, ix_blob, es, ix_late,
                   ix_recovered>>

\* load_or_create ends: it returns the index (to the constructor, line 190, or
\* to search, lines 65-69), or the exception of create_index leaves it
LxFinish(p, outcome, docs, found, rebuilt) ==
    /\ ix_last' = [ix_last EXCEPT ![p] =
                      [op |-> IF ix_cfg[p].cls = "Pre" THEN "search" ELSE "construct",
                       outcome |-> outcome, docs |-> docs, found |-> found,
                       rebuilt |-> rebuilt, partial |-> FALSE, late |-> {}, k |-> 0,
                       ret |-> <<>>]]
    /\ ix_mem' = [ix_mem EXCEPT ![p] = IF outcome = "returned"
                                       THEN [loaded |-> TRUE, docs |-> docs] ELSE @]
    /\ IF outcome = "returned" \/ ix_cfg[p].cls = "Pre"
       THEN ix_pc' = [ix_pc EXCEPT ![p] = "ready"] /\ ix_cfg' = ix_cfg
       ELSE ix_pc' = [ix_pc EXCEPT ![p] = "none"] /\ ix_cfg' = [ix_cfg EXCEPT ![p] = NoCfg]
    /\ ix_combined' = [ix_combined EXCEPT ![p] = <<>>]

\* pickle.load(f) succeeds on the blob
BlobLoads(blob) == blob.exists /\ blob.ok

\* line 83 (333): if search_file_path.exists()
LxExists(p) ==
    /\ UNCHANGED <<not_ix, files>>
    /\ ix_pc[p] = "lx_exists"
    /\ IF ix_blob[LexBlobPath(ix_cfg[p])].exists
       THEN /\ ix_pc' = [ix_pc EXCEPT ![p] = "lx_load"]
            /\ ix_last' = ix_last
       ELSE /\ ix_pc' = [ix_pc EXCEPT ![p] = "lx_create"]
            /\ ix_last' = [ix_last EXCEPT ![p].found = "absent"]
    /\ UNCHANGED <<ix_cfg, ix_combined, ix_i, ix_mem, ix_blob, es, ix_late,
                   ix_recovered, ix_calls>>

\* lines 84-88 (334-338): pickle.load returns the index, or raises and the
\* exception is caught ("Corrupted index. Rebuilding...")
LxLoad(p) ==
    /\ UNCHANGED <<not_ix, files>>
    /\ ix_pc[p] = "lx_load"
    /\ IF BlobLoads(ix_blob[LexBlobPath(ix_cfg[p])])
       THEN LxFinish(p, "returned", ix_blob[LexBlobPath(ix_cfg[p])].docs, "ok", FALSE)
       ELSE /\ ix_pc' = [ix_pc EXCEPT ![p] = "lx_create"]
            /\ ix_last' = [ix_last EXCEPT ![p].found = "corrupt"]
            /\ UNCHANGED <<ix_cfg, ix_combined, ix_mem>>
    /\ UNCHANGED <<ix_i, ix_blob, es, ix_late, ix_recovered, ix_calls>>

\* create_index, lines 107-127 (create_minsearch_index, 343-356): every chunk
\* file of the directory is read and the index is fitted on their chunks
LxCreate(p) ==
    /\ UNCHANGED <<not_ix, files>>
    /\ ix_pc[p] = "lx_create"
    /\ IF ReadCombined(LexCacheDir(ix_cfg[p])).error = "none"
       THEN /\ ix_combined' = [ix_combined EXCEPT ![p] =
                                  ReadCombined(LexCacheDir(ix_cfg[p])).docs]
            /\ ix_pc' = [ix_pc EXCEPT ![p] = "lx_open"]
            /\ UNCHANGED <<ix_cfg, ix_mem, ix_last>>
       ELSE LxFinish(p, ReadCombined(LexCacheDir(ix_cfg[p])).error, <<>>,
                     ix_last[p].found, FALSE)
    /\ UNCHANGED <<ix_i, ix_blob, es, ix_late, ix_recovered, ix_calls>>

\* save_index, lines 139-141 (358-359): open(search_file_path, "wb")
LxSaveOpen(p) ==
    /\ UNCHANGED <<not_ix, files>>
    /\ ix_pc[p] = "lx_open"
    /\ ix_blob' = [ix_blob EXCEPT ![LexBlobPath(ix_cfg[p])] =
                      [exists |-> TRUE, ok |-> FALSE, docs |-> <<>>]]
    /\ ix_pc' = [ix_pc EXCEPT ![p] = "lx_dump"]
    /\ UNCHANGED <<ix_cfg, ix_combined, ix_i, ix_mem, ix_last, es, ix_late,
                   ix_recovered, ix_calls>>

\* save_index, line 142 (360): pickle.dump(index, f); the index is returned
LxSaveDump(p) ==
    /\ UNCHANGED <<not_ix, files>>
    /\ ix_pc[p] = "lx_dump"
    /\ ix_blob' = [ix_blob EXCEPT ![LexBlobPath(ix_cfg[p])] =
                      [exists |-> TRUE, ok |-> TRUE, docs |-> ix_combined[p]]]
    /\ ix_recovered' = IF ix_last[p].found = "corrupt"
                       THEN ix_recovered \cup {LexBlobPath(ix_cfg[p])} ELSE ix_recovered
    /\ LxFinish(p, "returned", ix_combined[p], ix_last[p].found, TRUE)
    /\ UNCHANGED <<ix_i, es, ix_late, ix_calls>>

\* --- the vector backend: YoutuberTranscriptSearcher with
\* backend="elasticsearch"; indexed documents become searchable at a refresh
VxInit ==
    /\ IxIdle
    /\ IxFilesInit
    /\ CallersIdle

\* the collection named by searcher p
VxName(p) == ix_cfg[p].index_name

\* (mutant) the collection is never found
EsExists_Never(n) == FALSE

\* self.es.indices.exists(index=self.index_name), line 199
EsExists(n) == es[n].exists

\* response["hits"]["hits"], lines 305-326: the searchable documents of the
\* collection, whatever their youtuber field
EsHits(n) == SubSeq(es[n].docs, 1, es[n].visible)

\* the chunks in a sequence
ChunkSet(docs) == {docs[i] : i \in 1..Len(docs)}

\* the chunk file a chunk was read from
ChunkFile(c) == IxPath(<<c.youtuber, c.video_id>>)

\* YoutuberTranscriptSearcher(youtuber, index_name=name), lines 174-186: the
\* constructor calls ensure_es_index
VxConstruct(p, youtuber, name) ==
    /\ UNCHANGED <<not_ix, files>>
    /\ ix_pc[p] = "none"
    /\ ix_calls < MaxIxCalls
    /\ ix_calls' = ix_calls + 1
    /\ ix_cfg' = [ix_cfg EXCEPT ![p] = [cls |-> "Searcher", youtuber |-> youtuber,
                                        index_name |-> name, cache_dir |-> <<>>]]
    /\ ix_pc' = [ix_pc EXCEPT ![p] = "vx_exists"]
    /\ ix_last' = [ix_last EXCEPT ![p] = NoResult]
    /\ UNCHANGED <<ix_combined, ix_i, ix_mem, ix_blob, es, ix_late, ix_recovered>>

\* line 199: if not self.es.indices.exists(...); when the collection exists
\* ensure_es_index and the constructor return
VxExists(p) ==
    /\ UNCHANGED <<not_ix, files>>
    /\ ix_pc[p] = "vx_exists"
    /\ IF EsExists(VxName(p))
       THEN /\ ix_pc' = [ix_pc EXCEPT ![p] = "ready"]
            /\ ix_last' = [ix_last EXCEPT ![p] =
                              [NoResult EXCEPT !.op = "construct", !.outcome = "returned",
                                               !.found = "exists"]]
       ELSE /\ ix_pc' = [ix_pc EXCEPT ![p] = "vx_create"]
            /\ ix_last' = ix_last
    /\ UNCHANGED <<ix_cfg, ix_combined, ix_i, ix_mem, ix_blob, es, ix_late, ix_recovered,
                   ix_calls>>

\* line 224: indices.create(..., ignore=400); the error of a collection that
\* another caller created meanwhile is ignored
VxCreate(p) ==
    /\ UNCHANGED <<not_ix, files>>
    /\ ix_pc[p] = "vx_create"
    /\ es' = [es EXCEPT ![VxName(p)] =
                  IF @.exists THEN @
                  ELSE [@ EXCEPT !.exists = TRUE,
                                 !.due = CachedChunkSet(SearcherCacheDir(ix_cfg[p].youtuber))]]
    /\ ix_pc' = [ix_pc EXCEPT ![p] = "vx_read"]
    /\ UNCHANGED <<ix_cfg, ix_combined, ix_i, ix_mem, ix_last, ix_blob, ix_late,
                   ix_recovered, ix_calls>>

\* lines 226-233: the chunk files of the cache directory are read; json.load
\* or the ValueError of line 232 leaves ensure_es_index and the constructor
VxRead(p) ==
    /\ UNCHANGED <<not_ix, files>>
    /\ ix_pc[p] = "vx_read"
    /\ LET r == ReadCombined(SearcherCacheDir(ix_cfg[p].youtuber))
       IN  IF r.error # "none"
           THEN /\ ix_pc' = [ix_pc EXCEPT ![p] = "none"]
                /\ ix_last' = [ix_last EXCEPT ![p] =
                                  [NoResult EXCEPT !.op = "construct", !.outcome = "raised",
                                                   !.found = "missing"]]
                /\ UNCHANGED <<ix_combined, ix_i>>
           ELSE /\ ix_pc' = [ix_pc EXCEPT ![p] = "vx_index"]
                /\ ix_combined' = [ix_combined EXCEPT ![p] = r.docs]
                /\ ix_i' = [ix_i EXCEPT ![p] = 0]
                /\ ix_last' = ix_last
    /\ UNCHANGED <<ix_cfg, ix_mem, ix_blob, es, ix_late, ix_recovered, ix_calls>>

\* index_chunks_es, lines 277-284: one chunk is embedded and indexed
VxIndexChunk(p) ==
    /\ UNCHANGED <<not_ix, files>>
    /\ ix_pc[p] = "vx_index"
    /\ ix_i[p] < Len(ix_combined[p])
    /\ es' = [es EXCEPT ![VxName(p)].docs = Append(@, ix_combined[p][ix_i[p] + 1])]
    /\ ix_i' = [ix_i EXCEPT ![p] = @ + 1]
    /\ UNCHANGED <<ix_pc, ix_cfg, ix_combined, ix_mem, ix_last, ix_blob, ix_late,
                   ix_recovered, ix_calls>>

\* line 285: indices.refresh makes what the collection holds searchable;
\* ensure_es_index and the constructor return
VxRefresh(p) ==
    /\ UNCHANGED <<not_ix, files>>
    /\ ix_pc[p] = "vx_index"
    /\ ix_i[p] = Len(ix_combined[p])
    /\ es' = [es EXCEPT ![VxName(p)].visible = Len(es[VxName(p)].docs)]
    /\ ix_pc' = [ix_pc EXCEPT ![p] = "ready"]
    /\ ix_last' = [ix_last EXCEPT ![p] =
                      [NoResult EXCEPT !.op = "construct", !.outcome = "returned",
                                       !.found = "missing", !.rebuilt = TRUE,
                                       !.docs = ix_combined[p]]]
    /\ ix_combined' = [ix_combined EXCEPT ![p] = <<>>]
    /\ ix_i' = [ix_i EXCEPT ![p] = 0]
    /\ UNCHANGED <<ix_cfg, ix_mem, ix_blob, ix_late, ix_recovered, ix_calls>>

\* another searcher is indexing into the collection of p, and what a search
\* of p sees is a strict part of the chunks that searcher is loading
HalfBuilt(p) ==
    \E q \in IxProcs \ {p} :
        /\ ix_pc[q] = "vx_index"
        /\ VxName(q) = VxName(p)
        /\ ChunkSet(EsHits(VxName(p))) \subseteq ChunkSet(ix_combined[q])
        /\ ChunkSet(EsHits(VxName(p))) # ChunkSet(ix_combined[q])

\* lines 314-325: the record made of one hit
HitRecord(doc, score) ==
    [score |-> score, video_id |-> doc.video_id, title |-> doc.title,
     start_time |-> doc.start_time, content |-> doc.content]

\* search(query_text, k) with backend "elasticsearch", lines 370-371;
\* search_es, lines 304-326: the k nearest searchable documents of the
\* collection are returned, in the order of the response
VxSearch(p, k) ==
    /\ UNCHANGED <<not_ix, files>>
    /\ ix_pc[p] = "ready"
    /\ VxName(p) # "none"
    /\ ix_calls < MaxIxCalls
    /\ ix_calls' = ix_calls + 1
    /\ \E sc \in Scorings(EsHits(VxName(p))) :
          LET hits == TopK(EsHits(VxName(p)), sc, k)
          IN  ix_last' = [ix_last EXCEPT ![p] =
                             [NoResult EXCEPT !.op = "search", !.outcome = "returned",
                                              !.docs = hits, !.k = k,
                                              !.ret = [i \in 1..Len(hits) |->
                                                          HitRecord(hits[i],
                                                                    sc[EmbedText(hits[i])])],
                                              !.late = ix_late[VxName(p)],
                                              !.partial = HalfBuilt(p)]]
    /\ UNCHANGED <<ix_pc, ix_cfg, ix_combined, ix_i, ix_mem, ix_blob, es, ix_late,
                   ix_recovered>>

\* check_index_es(video_id), lines 248-268: the chunk file is read when it
\* exists; nothing is indexed (lines 257-266 are comments)
VxCheckIndex(p, video_id) ==
    /\ UNCHANGED <<not_ix, files>>
    /\ ix_pc[p] = "ready"
    /\ VxName(p) # "none"
    /\ ix_calls < MaxIxCalls
    /\ ix_calls' = ix_calls + 1
    /\ LET f == CacheFile(SearcherCacheDir(ix_cfg[p].youtuber), ix_cfg[p].youtuber, video_id)
           r == JsonLoads(files[f].data)
           known == f \in DOMAIN files /\ files[f].exists
       IN  ix_last' = [ix_last EXCEPT ![p] =
                          [NoResult EXCEPT !.op = "check_index",
                                           !.outcome = IF known /\ ~r.ok THEN "raised"
                                                       ELSE "returned",
                                           !.found = IF known THEN "exists" ELSE "missing",
                                           !.docs = IF known /\ r.ok THEN r.value ELSE <<>>]]
    /\ UNCHANGED <<ix_pc, ix_cfg, ix_combined, ix_i, ix_mem, ix_blob, es, ix_late,
                   ix_recovered>>

\* --- time_to_seconds: youtube_agent.py 246-257, main.py 97-105, app.py 48-59
\* the characters time tokens are made of here
TimeChars == {"0", "1", ":", "x", "-"}

\* the time tokens: every text of up to MaxToken characters
TimeTokens == UNION {[1..n -> TimeChars] : n \in 0..MaxToken}

\* int(p) accepts p: blanks around it are dropped, one sign may lead, digits follow
IntBody(p) ==
    IF Strip(p) # <<>> /\ Strip(p)[1] \in {"-", "+"} THEN Tail(Strip(p)) ELSE Strip(p)

IntAccepts(p) == IntBody(p) # <<>> /\ \A i \in 1..Len(IntBody(p)) : IsDigit(IntBody(p)[i])

\* int(p)
IntOf(p) ==
    IF Strip(p)[1] = "-" THEN 0 - ToInt(IntBody(p)) ELSE ToInt(IntBody(p))

\* [int(p) for p in time_str.split(":")] raises ValueError
PartsRaise(time_str) ==
    \E i \in 1..Len(SplitOn(time_str, <<":">>)) : ~IntAccepts(SplitOn(time_str, <<":">>)[i])

\* the seconds of the parts, for two and for three parts
PartsSeconds(parts) ==
    IF Len(parts) = 2 THEN IntOf(parts[1]) * 60 + IntOf(parts[2])
    ELSE IntOf(parts[1]) * 3600 + IntOf(parts[2]) * 60 + IntOf(parts[3])

TimeValue(n) == [kind |-> "value", n |-> n]
TimeRaised == [kind |-> "ValueError", n |-> 0]
NoTime == [kind |-> "none", n |-> 0]

\* YoutubeSummaryOutput.time_to_seconds, youtube_agent.py 246-257, and the
\* function of the same body in app.py 48-59: any other number of parts raises
RaisingTimeToSeconds(time_str) ==
    LET parts == SplitOn(time_str, <<":">>)
    IN  IF PartsRaise(time_str) THEN TimeRaised
        ELSE IF Len(parts) \in {2, 3} THEN TimeValue(PartsSeconds(parts))
        ELSE TimeRaised

\* SearchResultArticleHandler.time_to_seconds, main.py 97-105: any other
\* number of parts gives 0
HandlerTimeToSeconds(time_str) ==
    LET parts == SplitOn(time_str, <<":">>)
    IN  IF PartsRaise(time_str) THEN TimeRaised
        ELSE IF Len(parts) \in {2, 3} THEN TimeValue(PartsSeconds(parts))
        ELSE TimeValue(0)

TtIdle ==
    /\ tt_pc = "done"
    /\ tt_impl = "none"
    /\ tt_token = <<>>
    /\ tt_ret = NoTime

TtInit ==
    /\ tt_pc = "start"
    /\ tt_impl = "none"
    /\ tt_token \in TimeTokens
    /\ tt_ret = NoTime

TtCall(impl, ret) ==
    /\ UNCHANGED not_tt
    /\ tt_pc = "start"
    /\ tt_pc' = "done"
    /\ tt_impl' = impl
    /\ tt_ret' = ret
    /\ UNCHANGED tt_token

TtYoutubeAgent == TtCall("youtube_agent", RaisingTimeToSeconds(tt_token))
TtApp == TtCall("app", RaisingTimeToSeconds(tt_token))
TtMain == TtCall("main", HandlerTimeToSeconds(tt_token))

\* ---------------------------------------------------------------- map_progress
\* evals/utils.py: one task per element of seq, each running f under a semaphore;
\* the loop takes the finished tasks in completion order. The element at position
\* i of seq is called i, and the result f returns for it is Result(i).
\* what the variables are while another component runs
MpIdle ==
    /\ mp_pc = "idle"
    /\ mp_n = 0
    /\ mp_max = 0
    /\ mp_sem = 0
    /\ mp_task = <<>>
    /\ mp_queue = <<>>
    /\ mp_results = <<>>

\* map_progress(seq, f, max_concurrency) is called with len(seq) = n
MpInit ==
    /\ mp_pc = "called"
    /\ mp_n \in 0..MaxSeq
    /\ mp_max \in 1..MaxConc
    /\ mp_sem = 0
    /\ mp_task = <<>>
    /\ mp_queue = <<>>
    /\ mp_results = <<>>

\* the value f returns for the element at position i
Result(i) == <<"f", i>>

\* the invocations of f in progress: the tasks inside `async with semaphore`
Running == {i \in 1..Len(mp_task) : mp_task[i] = "running"}

\* (mutant) the semaphore admits every task
SemFree_Unbounded(value) == TRUE

\* asyncio.Semaphore.acquire goes on without waiting when the value is positive
SemFree(value) == value > 0

\* lines 9-21: the semaphore, one coroutine per element, as_completed, results = []
MpStart ==
    /\ UNCHANGED not_mp
    /\ mp_pc = "called"
    /\ mp_sem' = mp_max
    /\ mp_task' = [i \in 1..mp_n |-> "waiting"]
    /\ mp_queue' = <<>>
    /\ mp_results' = <<>>
    /\ mp_pc' = "loop"
    /\ UNCHANGED <<mp_n, mp_max>>

\* line 12-13: task i enters `async with semaphore` and calls f(el)
MpAcquire(i) ==
    /\ UNCHANGED not_mp
    /\ mp_task[i] = "waiting"
    /\ SemFree(mp_sem)
    /\ mp_sem' = mp_sem - 1
    /\ mp_task' = [mp_task EXCEPT ![i] = "running"]
    /\ UNCHANGED <<mp_pc, mp_n, mp_max, mp_queue, mp_results>>

\* line 13: f(el) returns; the semaphore is released and the task is done, which
\* puts it on as_completed's queue of finished tasks
MpReturn(i) ==
    /\ UNCHANGED not_mp
    /\ mp_task[i] = "running"
    /\ mp_sem' = mp_sem + 1
    /\ mp_task' = [mp_task EXCEPT ![i] = "done"]
    /\ mp_queue' = Append(mp_queue, i)
    /\ UNCHANGED <<mp_pc, mp_n, mp_max, mp_results>>

\* line 13: f(el) raises; the semaphore is released and the task ends with the
\* exception, which as_completed queues like a result
MpRaise(i) ==
    /\ UNCHANGED not_mp
    /\ mp_task[i] = "running"
    /\ mp_sem' = mp_sem + 1
    /\ mp_task' = [mp_task EXCEPT ![i] = "failed"]
    /\ mp_queue' = Append(mp_queue, i)
    /\ UNCHANGED <<mp_pc, mp_n, mp_max, mp_results>>

\* lines 23-25: one iteration of the loop: await the next finished task; its
\* result is appended, or its exception leaves map_progress
MpCollect ==
    /\ UNCHANGED not_mp
    /\ mp_pc = "loop"
    /\ Len(mp_results) < mp_n
    /\ mp_queue # <<>>
    /\ LET i == Head(mp_queue)
       IN  IF mp_task[i] = "failed"
           THEN /\ mp_pc' = "raised"
                /\ UNCHANGED mp_results
           ELSE /\ mp_results' = Append(mp_results, Result(i))
                /\ UNCHANGED mp_pc
    /\ mp_queue' = Tail(mp_queue)
    /\ UNCHANGED <<mp_n, mp_max, mp_sem, mp_task>>

\* line 27: the loop has taken len(seq) tasks; return results
MpFinish ==
    /\ UNCHANGED not_mp
    /\ mp_pc = "loop"
    /\ Len(mp_results) = mp_n
    /\ mp_pc' = "returned"
    /\ UNCHANGED <<mp_n, mp_max, mp_sem, mp_task, mp_queue, mp_results>>

\* ------------------------------------------------------------ specifications
\* one call of sliding_window on every bounded input
SwNext == SwEnter \/ SwExhausted \/ SwBreakSmall \/ SwEmit

InitWindow == SwInit /\ SpIdle /\ CtIdle /\ PlIdle /\ LcIdle /\ IxIdle /\ TtIdle /\ MpIdle

SpecWindow == InitWindow /\ [][SwNext]_vars

\* one call of split_video_to_multiple_transcript on every bounded input
SpNext == SpSplitLines \/ SpMatchLine \/ SpSkipLine \/ SpReturn

InitSplit == SpInit /\ SwIdle /\ CtIdle /\ PlIdle /\ LcIdle /\ IxIdle /\ TtIdle /\ MpIdle

SpecSplit == InitSplit /\ [][SpNext]_vars

\* any number of callers of the cache interface, their steps interleaved
CallChunkTranscript == \E p \in Procs, a \in AllArgs : CtCall(p, a)
CallHasCached == \E p \in Procs, a \in AllArgs : HasCached(p, a)
StepExists == \E p \in Procs : CtExists(p)
StepRead == \E p \in Procs : CtRead(p)
StepLoad == \E p \in Procs : CtLoad(p)
StepSummarize == \E p \in Procs, summary \in Summaries : CtSummarize(p, summary)
StepSummarizeRaises == \E p \in Procs : CtSummarizeRaises(p)
StepWindow == \E p \in Procs : CtWindow(p)
StepSaveOpen == \E p \in Procs : CtSaveOpen(p)
StepSaveWrite == \E p \in Procs : CtSaveWrite(p)

CtSteps ==
    \/ StepExists \/ StepRead \/ StepLoad \/ StepSummarize \/ StepSummarizeRaises
    \/ StepWindow \/ StepSaveOpen \/ StepSaveWrite

Init == CtInit /\ SwIdle /\ SpIdle /\ PlIdle /\ LcIdle /\ IxIdle /\ TtIdle /\ MpIdle

Next == CallChunkTranscript \/ CallHasCached \/ CtSteps

Spec == Init /\ [][Next]_vars

\* the same callers, one call at a time: a call starts when no call is in progress
SeqCallChunkTranscript == AllIdle /\ CallChunkTranscript
SeqCallHasCached == AllIdle /\ CallHasCached

NextSeq == SeqCallChunkTranscript \/ SeqCallHasCached \/ CtSteps

SpecSeq == Init /\ [][NextSeq]_vars

\* one cache entry: written by save_transcript (which may die while writing) or
\* left by something else, then read through each reader of the cache
StepCrash ==
    /\ pl_pc = "opened"
    /\ \E k \in 0..(Len(JsonDumpText(ChunksToJson(pl_chunks))) - 1) : PlCrash(k)

PlNext ==
    \/ PlSaveOpen \/ PlSaveWrite \/ StepCrash
    \/ PlReadHit \/ PlReadCheckIndex \/ PlReadList \/ PlReadCreateIndex

InitPayload == PlInit /\ SwIdle /\ SpIdle /\ CtIdle /\ LcIdle /\ IxIdle /\ TtIdle /\ MpIdle

SpecPayload == InitPayload /\ [][PlNext]_vars

\* one call of list_cached_videos on every bounded state of the cache
StepListCall == \E y \in Youtubers, ws \in WindowSteps : LcCall(y, ws)
StepListVisit == \E f \in ListPaths : LcVisit(f)

LcNext == StepListCall \/ StepListVisit \/ LcReturn

InitList == LcInit /\ SwIdle /\ SpIdle /\ PlIdle /\ IxIdle /\ TtIdle /\ MpIdle

SpecList == InitList /\ [][LcNext]_vars

\* the lexical searchers, one call at a time, and the processor that caches videos
StepCacheVideoSeq ==
    AllSearchersIdle /\ \E yv \in {v \in IxVideos : v[1] \in LxYoutubers} : IxCacheVideo(yv)
StepCacheVideoEngSeq == AllSearchersIdle /\ LxCacheVideoEng
StepLxConstructPre ==
    AllSearchersIdle /\ \E p \in IxProcs, y \in LxYoutubers : LxConstructPre(p, y)
StepLxConstructSearcher ==
    AllSearchersIdle
    /\ \E p \in IxProcs, y \in LxYoutubers, d \in CacheDirArgs : LxConstructSearcher(p, y, d)
StepLxConstructBadBackend ==
    AllSearchersIdle /\ \E p \in IxProcs, y \in LxYoutubers : LxConstructBadBackend(p, y)
StepLxSearchPre == AllSearchersIdle /\ \E p \in IxProcs : LxSearchPre(p)
StepLxSearchMem == AllSearchersIdle /\ \E p \in IxProcs, k \in SearchKs : LxSearchMem(p, k)
StepLxExists == \E p \in IxProcs : LxExists(p)
StepLxLoad == \E p \in IxProcs : LxLoad(p)
StepLxCreate == \E p \in IxProcs : LxCreate(p)
StepLxSaveOpen == \E p \in IxProcs : LxSaveOpen(p)
StepLxSaveDump == \E p \in IxProcs : LxSaveDump(p)

LxNext ==
    \/ StepCacheVideoSeq \/ StepCacheVideoEngSeq \/ StepLxConstructPre
    \/ StepLxConstructSearcher \/ StepLxConstructBadBackend
    \/ StepLxSearchPre \/ StepLxSearchMem
    \/ StepLxExists \/ StepLxLoad \/ StepLxCreate \/ StepLxSaveOpen \/ StepLxSaveDump

InitLexical == LxInit /\ SwIdle /\ SpIdle /\ PlIdle /\ LcIdle /\ TtIdle /\ MpIdle

SpecLexical == InitLexical /\ [][LxNext]_vars

\* the vector searchers of concurrent callers, and the processor that caches videos
StepCacheVideo == \E yv \in IxVideos : IxCacheVideo(yv)
StepVxConstruct ==
    \E p \in IxProcs, y \in IxYoutubers, name \in IndexNames : VxConstruct(p, y, name)
StepVxExists == \E p \in IxProcs : VxExists(p)
StepVxCreate == \E p \in IxProcs : VxCreate(p)
StepVxRead == \E p \in IxProcs : VxRead(p)
StepVxIndexChunk == \E p \in IxProcs : VxIndexChunk(p)
StepVxRefresh == \E p \in IxProcs : VxRefresh(p)
StepVxSearch == \E p \in IxProcs, k \in SearchKs : VxSearch(p, k)
StepVxCheckIndex == \E p \in IxProcs, yv \in IxVideos : VxCheckIndex(p, yv[2])

VxNext ==
    \/ StepCacheVideo \/ StepVxConstruct \/ StepVxExists \/ StepVxCreate \/ StepVxRead
    \/ StepVxIndexChunk \/ StepVxRefresh \/ StepVxSearch \/ StepVxCheckIndex

InitVector == VxInit /\ SwIdle /\ SpIdle /\ PlIdle /\ LcIdle /\ TtIdle /\ MpIdle

SpecVector == InitVector /\ [][VxNext]_vars

\* one call of one of the three time_to_seconds
TtNext == TtYoutubeAgent \/ TtApp \/ TtMain

InitTime == TtInit /\ SwIdle /\ SpIdle /\ CtIdle /\ PlIdle /\ LcIdle /\ IxIdle /\ MpIdle

SpecTime == InitTime /\ [][TtNext]_vars

\* one call of map_progress and the tasks it starts
StepMpAcquire == \E i \in 1..Len(mp_task) : MpAcquire(i)
StepMpReturn == \E i \in 1..Len(mp_task) : MpReturn(i)
StepMpRaise == \E i \in 1..Len(mp_task) : MpRaise(i)

MpNext == MpStart \/ StepMpAcquire \/ StepMpReturn \/ StepMpRaise \/ MpCollect \/ MpFinish

InitMap == MpInit /\ SwIdle /\ SpIdle /\ CtIdle /\ PlIdle /\ LcIdle /\ IxIdle /\ TtIdle

\* the event loop runs every coroutine that can go on, and every invocation of f
\* ends (it returns or raises)
MpFairness ==
    /\ WF_vars(MpStart)
    /\ WF_vars(StepMpAcquire)
    /\ WF_vars(StepMpReturn \/ StepMpRaise)
    /\ WF_vars(MpCollect)
    /\ WF_vars(MpFinish)

SpecMap == InitMap /\ [][MpNext]_vars /\ MpFairness

\* --------------------------------------------------- claims on sliding_window
\* who has returned or raised
SwFinished == sw_pc \in {"returned", "raised"}

SwTotal == Len(sw_parsed)

\* the start positions 0, S, 2S, ... the reference algorithm emits a chunk for:
\* every position up to it is < N with a window of >= 2 entries, and no window
\* before it ended at N
RefEmits(k) ==
    /\ \A j \in 0..k : /\ j * sw_step < SwTotal
                       /\ Min(j * sw_step + sw_window, SwTotal) - j * sw_step >= 2
    /\ \A j \in 0..(k - 1) : Min(j * sw_step + sw_window, SwTotal) # SwTotal

RefCount == Cardinality({k \in 0..SwTotal : RefEmits(k)})

\* what the reference algorithm says of its i-th chunk
RefChunk(i) ==
    LET start == (i - 1) * sw_step
        end   == Min(start + sw_window, SwTotal)
    IN  [chunk_id   |-> i,
         start_time |-> sw_parsed[start + 1].time,
         end_time   |-> sw_parsed[end].time,
         content    |-> Join(<<" ">>, [j \in 1..(end - start) |-> sw_parsed[start + j].text])]

\* the same four fields of an emitted chunk
ChunkView(c) ==
    [chunk_id |-> c.chunk_id, start_time |-> c.start_time,
     end_time |-> c.end_time, content |-> c.content]

\* C5: for every entry list of length N >= 0, W >= 1 and S >= 1, sliding_window
\* (either implementation) returns exactly the chunk sequence of the reference
\* algorithm: chunk ids 1, 2, 3, ..., boundary times of the window, texts joined
\* by single spaces.
C5_MatchesReference ==
    SwFinished =>
        /\ sw_pc = "returned"
        /\ Len(sw_chunks) = RefCount
        /\ \A i \in 1..Len(sw_chunks) : ChunkView(sw_chunks[i]) = RefChunk(i)

\* C6: every emitted chunk covers at least 2 source entries, and no chunk is
\* emitted at or after the first start position whose window has fewer than 2
\* entries; reaching that window ends the function.
C6_NoUndersizedChunk ==
    /\ Len(sw_spans) = Len(sw_chunks)
    /\ \A i \in 1..Len(sw_spans) :
          /\ sw_spans[i][2] - sw_spans[i][1] >= 2
          /\ \A k \in 0..SwTotal :
                (k * sw_step < SwTotal
                 /\ Min(k * sw_step + sw_window, SwTotal) - k * sw_step < 2)
                => sw_spans[i][1] < k * sw_step
    /\ sw_broke = "small" => sw_pc = "returned"

\* C6 witness: the loop was left at a window of fewer than 2 entries after
\* chunks had been emitted.
C6_Witness == sw_broke = "small" /\ Len(sw_chunks) >= 1

\* C7 as stated: whenever at least one chunk is emitted, the last chunk's
\* end_time is the time of the last entry.
C7_FinalChunkReachesEnd_Original ==
    (sw_pc = "returned" /\ Len(sw_chunks) >= 1)
        => sw_chunks[Len(sw_chunks)].end_time = sw_parsed[SwTotal].time

\* C7 amended: with step_size < window_size (overlapping windows), whenever at
\* least one chunk is emitted, the last chunk's end_time is the time of the last
\* entry.
C7_FinalChunkReachesEnd ==
    (sw_pc = "returned" /\ Len(sw_chunks) >= 1 /\ sw_step < sw_window)
        => sw_chunks[Len(sw_chunks)].end_time = sw_parsed[SwTotal].time

\* C7 witness: overlapping windows, several chunks, the function has returned.
C7_Witness ==
    sw_pc = "returned" /\ Len(sw_chunks) >= 2 /\ sw_step < sw_window

\* C8: a chunk whose window ends at the last entry is the last chunk: after it
\* the function has returned, so at most one chunk ends at the last entry.
C8_StopRule ==
    \A i \in 1..Len(sw_spans) :
        sw_spans[i][2] = SwTotal => (i = Len(sw_spans) /\ sw_pc = "returned")

\* C8 witness: the loop was left at end == total while a later start position
\* was still < total.
C8_Witness == sw_broke = "end" /\ sw_start + sw_step < SwTotal

\* ----------------------------- claims on split_video_to_multiple_transcript
\* a line that starts with digits, a colon and digits: what (\d+:\d+)\s*(.*)
\* accepts at the start of a line, stated without the matching procedure
HasTimestampPrefix(line) ==
    \E a \in 1..Len(line), b \in 1..Len(line) :
        /\ b >= a + 2
        /\ \A k \in 1..a : IsDigit(line[k])
        /\ line[a + 1] = ":"
        /\ \A k \in (a + 2)..b : IsDigit(line[k])

\* how many of the first n lines carry a timestamp
TimestampedAmong(n) == Cardinality({j \in 1..n : HasTimestampPrefix(sp_lines[j])})

C10_TimestampCaptured ==
    \A i \in 1..sp_i : \A sec \in SampleSeconds, t \in SampleSentences :
        sp_lines[i] = SubtitleLine(sec, t)
        => /\ sp_entry_of[i] # 0
           /\ sp_parsed[sp_entry_of[i]] = [time |-> FormatTimestamp(sec), text |-> t]

\* ------------------------------------------------------ claims on the chunk cache
\* where a call in progress is once it has found no cached file
MissBranch == {"load", "summarize", "window", "save_open", "save_write"}

\* C1 as stated: over a sequential run of calls, youtuber_summarize is invoked
\* at most once per cache key.
C1_SummarizerInvokedOnce_Original == \A k \in Keys : n_summarize[k] <= 1

\* C1 amended: over a sequential run of calls, youtuber_summarize returns at
\* most once per cache key (an invocation that raises caches nothing, and the
\* next call invokes it again); once a call has built and saved the chunk set,
\* every later call with that key takes the cache-hit branch, so the chunk set
\* is segmented and saved once.
C1_Idempotent ==
    /\ \A k \in Keys : n_summarized[k] <= 1 /\ n_window[k] <= 1 /\ n_built[k] <= 1
    /\ \A p \in Procs : pc[p] \in MissBranch => n_built[KeyOf(args[p])] = 0
    /\ \A k \in Keys : n_summarize[k] > 1 => n_summarize[k] > n_summarized[k]

\* C1 witness: for one key the summarizer raised once and returned once, the
\* chunk set was built, and a later call with that key returned from the
\* cache-hit branch.
C1_Witness ==
    \E p \in Procs :
        /\ last[p].op = "chunk_transcript"
        /\ last[p].branch = "hit"
        /\ last[p].outcome = "returned"
        /\ n_built[last[p].key] = 1
        /\ n_summarize[last[p].key] = 2
        /\ n_summarized[last[p].key] = 1

\* C2: under any interleaving of concurrent chunk_transcript callers, the
\* segmentation of a cache key is computed at most once.
C2_AtMostOneSegmentation == \A k \in Keys : n_window[k] <= 1

\* names that put underscores and digits where the path puts its separators
WideYoutubers == {<<"a">>, <<"a", "_", "1">>, <<"a", "_", "1", "5", "_", "3">>}
WideVideoIds == {<<"v", "1">>, <<"1", "_", "v", "1">>, <<"3", "_", "v", "1">>}
WideWindowSteps == WindowSteps \cup {<<1, 53>>, <<1, 5>>}
WideArgs ==
    {ArgsOf(v, y, i, ws) : v \in {"Chinese", "English"}, y \in WideYoutubers,
                           i \in WideVideoIds, ws \in WideWindowSteps}

\* two calls with different cache keys never use the same file, and
\* has_cached_transcript looks at the file of the Chinese processor
PathsInjective ==
    /\ \A a \in WideArgs, b \in WideArgs : KeyOf(a) # KeyOf(b) => PathOf(a) # PathOf(b)
    /\ \A a \in WideArgs :
          a.variant = "Chinese"
          => HasCachedPath(a.youtuber, a.video_id, a.window_size, a.step_size) = PathOf(a)

\* C3: the mapping from cache key to storage path is injective; the file of a
\* key only ever holds chunks built with that key's window and step, a
\* cache-hit call only returns after a build with its own key, and
\* has_cached_transcript reports a key present only after a build with that key.
C3_CacheIsolation ==
    /\ calls = 0 => PathsInjective
    /\ \A a \in AllArgs :
          LET r == JsonLoads(files[PathOf(a)].data)
          IN  /\ files[PathOf(a)].exists => n_window[KeyOf(a)] >= 1
              /\ (files[PathOf(a)].exists /\ r.ok)
                 => \E summary \in Summaries : r.value = BuildChunks(a, summary)
    /\ \A p \in Procs :
          /\ (last[p].op = "chunk_transcript" /\ last[p].branch = "hit")
             => n_window[last[p].key] >= 1
          /\ (last[p].op = "has_cached_transcript" /\ last[p].ret.bool)
             => n_window[last[p].key] >= 1

\* C3 witness: the chunk set of video v1 is cached under (15, 3) and
\* has_cached_transcript answered False for the same video under (10, 5).
C3_Witness ==
    /\ JsonLoads(files[PathOf(ArgsOf("Chinese", <<"a">>, <<"v", "1">>,
                                     <<DefaultWindow, DefaultStep>>))].data).ok
    /\ \E p \in Procs :
          /\ last[p].op = "has_cached_transcript"
          /\ last[p].key = KeyOf(ArgsOf("Chinese", <<"a">>, <<"v", "1">>,
                                        <<OtherWindow, OtherStep>>))
          /\ ~last[p].ret.bool

\* C4: chunk_transcript returns the list of chunks, on a cache miss the list it
\* saved and on a cache hit the list it loaded, which is the list the building
\* call returned.
C4_ReturnsChunkList ==
    \A p \in Procs :
        (last[p].op = "chunk_transcript" /\ last[p].outcome = "returned")
        => /\ last[p].ret.kind = "list"
           /\ JsonLoads(files[last[p].path].data).ok
           /\ last[p].ret.list = JsonLoads(files[last[p].path].data).value

\* C14: once a chunk set has been persisted under a key (the file holds a
\* complete list), no step of any caller changes, truncates or removes the file.
C14_WriteOnce ==
    [][\A f \in Paths :
          (files[f].exists /\ JsonLoads(files[f].data).ok) => files'[f] = files[f]]_vars

\* ------------------------------------------------ claims on the cache entry text
\* C11: for every list of chunk records, what json.loads reads from the file
\* save_transcript wrote is a list of the same length whose i-th record equals
\* the i-th record saved, field for field, and a reader that returns the loaded
\* value returns that list.
C11_RoundTrip ==
    pl_pc = "saved" =>
        /\ JsonLoadsText(pl_file.text).ok
        /\ JsonLoadsText(pl_file.text).value.kind = "list"
        /\ Len(JsonLoadsText(pl_file.text).value.items) = Len(pl_chunks)
        /\ \A i \in 1..Len(pl_chunks) :
              JsonLoadsText(pl_file.text).value.items[i] = ChunkToJson(pl_chunks[i])
        /\ pl_read.reader = "check_index_es" =>
              /\ pl_read.outcome = "returned"
              /\ pl_read.value = ChunksToJson(pl_chunks)

\* C11 witness: a list of two records, one of them with a quote, a backslash and
\* a tab in its title and a newline in its content, was saved and loaded again.
C11_Witness ==
    /\ pl_pc = "saved"
    /\ Len(pl_chunks) = 2
    /\ \E i \in 1..2 : pl_chunks[i].title[1] = QUOTE
    /\ pl_read.reader = "check_index_es"

\* C12: whenever the payload stored under a key parses but is not a list of
\* chunk-shaped records (an object, a scalar, a list with other items), a read
\* of the key through chunk_transcript's hit branch, check_index_es,
\* list_cached_videos or create_index ends with an error.
C12_MalformedPayloadFails ==
    (/\ pl_read.reader # "none"
     /\ JsonLoadsText(pl_file.text).ok
     /\ ~IsChunkList(JsonLoadsText(pl_file.text).value))
    => pl_read.outcome # "returned"

\* C13: after the process died inside save_transcript, at whatever character of
\* the JSON text, the file does not parse, and every read of the key ends with
\* JSONDecodeError: no reader gets an empty list or a prefix of the list.
C13_CrashedSaveFailsToLoad ==
    pl_pc = "crashed" =>
        /\ ~JsonLoadsText(pl_file.text).ok
        /\ pl_read.reader # "none" => pl_read.outcome = "JSONDecodeError"

\* C13 witness: the process died after it had written the first of two records
\* and part of the second, and chunk_transcript then read the key.
C13_Witness ==
    /\ pl_pc = "crashed"
    /\ Len(pl_chunks) = 2
    /\ Len(pl_file.text) > Len(JsonDumpText(ChunksToJson(<<pl_chunks[1]>>)))
    /\ pl_read.reader = "chunk_transcript"

\* ------------------------------------------------- claims on list_cached_videos
\* the keys of the namespace (youtuber, window, step) that have a persisted file
PersistedIn(youtuber, window_size, step_size) ==
    {a \in ListArgs : /\ a.youtuber = youtuber
                      /\ a.window_size = window_size
                      /\ a.step_size = step_size
                      /\ files[PathOf(a)].exists}

\* C15: a call of list_cached_videos returns (it does not raise); it returns []
\* when the namespace's directory does not exist, and otherwise exactly one
\* record per chunk set persisted in the namespace, with the title and summary of
\* the set's first chunk and the url of the key's video_id.
C15_ListComplete ==
    (lc_pc = "idle" /\ lc_args # NoArgs) =>
        /\ lc_ret.outcome = "returned"
        /\ Len(lc_ret.value)
              = Cardinality(PersistedIn(lc_args.youtuber, lc_args.window_size,
                                        lc_args.step_size))
        /\ \A a \in PersistedIn(lc_args.youtuber, lc_args.window_size, lc_args.step_size) :
              \E i \in 1..Len(lc_ret.value) :
                 lc_ret.value[i]
                   = [title   |-> JsonLoads(files[PathOf(a)].data).value[1].title,
                      summary |-> JsonLoads(files[PathOf(a)].data).value[1].summary,
                      url     |-> VideoUrl(a.video_id)]

\* -------------------------------------------------- claims on the lexical index
\* load_or_create of searcher p ends in this step
LxLoadEnds(p) ==
    /\ ix_pc[p] \in {"lx_load", "lx_create", "lx_dump"}
    /\ ix_pc'[p] \in {"ready", "none"}

\* the rebuild after an unreadable blob: the call returns, the index holds
\* exactly the chunks of the directory's chunk files, and the blob holds it
LxRecovers(p) ==
    /\ ix_last'[p].outcome = "returned"
    /\ ix_last'[p].rebuilt
    /\ {ix_last'[p].docs[i] : i \in 1..Len(ix_last'[p].docs)}
          = CachedChunkSet(LexCacheDir(ix_cfg[p]))
    /\ Len(ix_last'[p].docs) = Cardinality(CachedChunkSet(LexCacheDir(ix_cfg[p])))
    /\ ix_blob'[LexBlobPath(ix_cfg[p])]
          = [exists |-> TRUE, ok |-> TRUE, docs |-> ix_last'[p].docs]

\* a load of a blob that was rebuilt before returns it without a rebuild
LxLoadsRecovered(p) ==
    (LxLoadEnds(p) /\ LexBlobPath(ix_cfg[p]) \in ix_recovered)
    => /\ ix_last'[p].outcome = "returned"
       /\ ix_last'[p].found = "ok"
       /\ ~ix_last'[p].rebuilt

\* C16 as stated: whenever load_or_create finds the blob unreadable, it
\* rebuilds the index from all chunk files cached in the namespace, overwrites
\* the blob and returns the index; the next load of the blob succeeds without a
\* rebuild.
C16_LexicalRecovery_Original ==
    [][\A p \in IxProcs :
          /\ (LxLoadEnds(p) /\ ix_last'[p].found = "corrupt") => LxRecovers(p)
          /\ LxLoadsRecovered(p)]_vars

\* C16 amended: the same, when every chunk file of the namespace parses.
C16_LexicalRecovery ==
    [][\A p \in IxProcs :
          /\ (/\ LxLoadEnds(p)
              /\ ix_last'[p].found = "corrupt"
              /\ \A f \in GlobJson(LexCacheDir(ix_cfg[p])) : JsonLoads(files[f].data).ok)
             => LxRecovers(p)
          /\ LxLoadsRecovered(p)]_vars

\* C16 witness: a blob that had been found unreadable and rebuilt from two
\* chunk files was loaded by a later call, without a rebuild.
C16_Witness ==
    \E p \in IxProcs :
        /\ ix_last[p].found = "ok"
        /\ ix_last[p].outcome = "returned"
        /\ Len(ix_last[p].docs) = 2
        /\ ix_cfg[p].cls # "none"
        /\ LexBlobPath(ix_cfg[p]) \in ix_recovered

\* ------------------------------------------------ claims on the index lifecycle
\* the state of the vector index named n, as its callers treat it
VecState(n) ==
    IF ~NoBuilder(n) THEN "BUILDING"
    ELSE IF es[n].exists THEN "READY"
    ELSE "UNINITIALIZED"

\* a searcher is inside create_index / save_index for the blob b
LexBuilder(b) ==
    \E p \in IxProcs :
        /\ ix_pc[p] \in {"lx_create", "lx_open", "lx_dump"}
        /\ LexBlobPath(ix_cfg[p]) = b

\* the state of the lexical index persisted at b
LexState(b) ==
    IF LexBuilder(b) THEN "BUILDING"
    ELSE IF ~ix_blob[b].exists THEN "UNINITIALIZED"
    ELSE IF ix_blob[b].ok THEN "READY"
    ELSE "CORRUPTED"

LifecycleSteps ==
    {<<"UNINITIALIZED", "BUILDING">>, <<"BUILDING", "READY">>,
     <<"READY", "CORRUPTED">>, <<"CORRUPTED", "BUILDING">>}

\* a build of the vector index n ends in this step with all chunks indexed
VecBuildCompletes(n) ==
    \E p \in IxProcs : VxName(p) = n /\ ix_pc[p] = "vx_index" /\ ix_pc'[p] = "ready"

\* a build of the lexical index b ends in this step with the blob written
LexBuildCompletes(b) ==
    \E p \in IxProcs :
        LexBlobPath(ix_cfg[p]) = b /\ ix_pc[p] = "lx_dump" /\ ix_pc'[p] = "ready"

\* C17: per namespace the index state only moves UNINITIALIZED -> BUILDING ->
\* READY, READY -> CORRUPTED and CORRUPTED -> BUILDING, for the vector and the
\* lexical backend; a build that fails never leaves the index READY.
C17_Lifecycle ==
    [][/\ \A n \in IndexNames :
             VecState(n)' # VecState(n) =>
                 /\ <<VecState(n), VecState(n)'>> \in LifecycleSteps
                 /\ VecState(n)' = "READY" => VecBuildCompletes(n)
       /\ \A b \in BlobPaths :
             LexState(b)' # LexState(b) =>
                 /\ <<LexState(b), LexState(b)'>> \in LifecycleSteps
                 /\ LexState(b)' = "READY" => LexBuildCompletes(b)]_vars

C19_NoHalfWrittenVisible ==
    \A p \in IxProcs : ix_last[p].op = "search" => ~ix_last[p].partial

\* C20: a search through the searcher bound to one creator never returns a
\* chunk of another creator.
C20_NoCrossNamespace ==
    \A p \in IxProcs :
        ix_last[p].op = "search" =>
            \A i \in 1..Len(ix_last[p].docs) : ix_last[p].docs[i].youtuber = ix_cfg[p].youtuber

\* ------------------------------------------------- claims on the search contract
\* C21: search returns at most k results, and their scores are strictly
\* descending: no two consecutive results have the same score.
C21_RankedResults ==
    \A p \in IxProcs :
        (ix_last[p].op = "search" /\ VxName(p) # "none") =>
            /\ Len(ix_last[p].ret) <= ix_last[p].k
            /\ \A i \in 1..(Len(ix_last[p].ret) - 1) :
                   ix_last[p].ret[i].score > ix_last[p].ret[i + 1].score

\* the keys of a result record of the search contract
SearchShape == {"score", "video_id", "title", "start_time", "content"}

\* C22: search returns records of the shape {score, video_id, title,
\* start_time, content} from either backend, and an instance answers from the
\* backend it was constructed with.
C22_OneContract ==
    \A p \in IxProcs :
        ix_last[p].op = "search" /\ ix_cfg[p].cls = "Searcher" =>
            /\ \A i \in 1..Len(ix_last[p].ret) : DOMAIN ix_last[p].ret[i] = SearchShape
            /\ VxName(p) = "none" =>
                   ChunkSet(ix_last[p].docs) = ChunkSet(ix_mem[p].docs)

\* ---------------------------------------------------- claims on time_to_seconds
\* a part of a time token that is a number: digits only
NumericPart(p) == p # <<>> /\ \A i \in 1..Len(p) : IsDigit(p[i])

\* a token of the form M:SS or H:MM:SS: two or three numeric parts
ValidTimeToken(t) ==
    /\ Len(SplitOn(t, <<":">>)) \in {2, 3}
    /\ \A i \in 1..Len(SplitOn(t, <<":">>)) : NumericPart(SplitOn(t, <<":">>)[i])

\* the seconds a valid token stands for
TokenSeconds(t) ==
    LET parts == SplitOn(t, <<":">>)
    IN  IF Len(parts) = 2 THEN ToInt(parts[1]) * 60 + ToInt(parts[2])
        ELSE ToInt(parts[1]) * 3600 + ToInt(parts[2]) * 60 + ToInt(parts[3])

\* C23: each time_to_seconds raises for every token that is not of the form
\* M:SS or H:MM:SS and never returns 0 for it; for a valid token it returns
\* minutes*60+seconds, resp. hours*3600+minutes*60+seconds.
C23_InvalidTimestampFailsFast ==
    tt_impl # "none" =>
        IF ValidTimeToken(tt_token)
        THEN tt_ret = TimeValue(TokenSeconds(tt_token))
        ELSE tt_ret.kind = "ValueError"

\* ----------------------------------------------- claims on the lexical index (2)
\* C24: the index that load_or_create_index returns (and the next search
\* uses) contains the chunks of every video cached in the namespace, also of
\* one cached after the index was built and persisted.
C24_LexicalSeesNewData ==
    [][\A p \in IxProcs :
          (LxLoadEnds(p) /\ ix_cfg[p].cls = "Pre" /\ ix_last'[p].outcome = "returned")
          => CachedChunkSet(LexCacheDir(ix_cfg[p])) \subseteq ChunkSet(ix_last'[p].docs)]_vars

\* --------------------------------------------------- claims on the constructor
\* the constructor of searcher p (backend "minsearch") ends in this step
\* with an index it has built
LxConstructBuilt(p) ==
    /\ LxLoadEnds(p)
    /\ ix_cfg[p].cls = "Searcher"
    /\ ix_last'[p].outcome = "returned"
    /\ ix_last'[p].rebuilt

\* C25: a YoutuberTranscriptSearcher builds its index from exactly the chunk
\* files of the directory passed as cache_dir; with backend "minsearch" and a
\* missing cache_dir the constructor raises ValueError and builds or persists
\* no index; an unsupported backend raises ValueError.
C25_CacheDirHonoured ==
    [][\A p \in IxProcs :
          /\ LxConstructBuilt(p) =>
                 ChunkSet(ix_last'[p].docs) = CachedChunkSet(ix_cfg[p].cache_dir)
          /\ (ix_cfg'[p].cls = "Searcher" /\ ix_cfg'[p].index_name = "none"
                  /\ ix_cfg'[p].cache_dir = <<>>)
             => ix_pc'[p] \notin {"lx_exists", "lx_load", "lx_create", "lx_open", "lx_dump",
                                  "ready"}
          /\ ix_last'[p].op = "construct_other" => ix_last'[p].outcome = "ValueError"]_vars

\* ------------------------------------------------ claims on the vector index (2)
\* C26: whenever a collection exists and no build of it is in progress, it
\* holds a document for every chunk that was cached in the namespace when the
\* collection was created, also after a build that failed part-way.
C26_ExistingCollectionComplete ==
    \A n \in IndexNames :
        (es[n].exists /\ NoBuilder(n)) => es[n].due \subseteq ChunkSet(es[n].docs)

\* C27: the collection never holds two documents with the same
\* (video_id, chunk_id) (of one creator: the videos of two creators may bear the
\* same id here).
C27_NoDuplicateDocuments ==
    \A n \in IndexNames :
        \A i, j \in 1..Len(es[n].docs) :
            (/\ es[n].docs[i].youtuber = es[n].docs[j].youtuber
             /\ es[n].docs[i].video_id = es[n].docs[j].video_id
             /\ es[n].docs[i].chunk_id = es[n].docs[j].chunk_id) => i = j

\* a step in which the build of caller p fails: load_transcript finds no raw
\* transcript, or youtuber_summarize raises
FailedBuild(p) == pc[p] \in {"load", "summarize"} /\ pc'[p] = "idle"

\* some caller has written, or is writing, the chunk file of key k
KeySaved(k) ==
    \/ n_built[k] > 0
    \/ \E q \in Procs : pc[q] = "save_write" /\ KeyOf(args[q]) = k

\* C28: a chunk_transcript call that fails because the raw transcript is absent
\* or because the summarizer raises ends with that error, changes no chunk file
\* of any key, and leaves no chunk file for its own key (has_cached_transcript
\* finds none) unless another caller has saved that key.
C28_FailedBuildLeavesCache ==
    [][\A p \in Procs :
          FailedBuild(p)
          => /\ last'[p].op = "chunk_transcript"
             /\ last'[p].key = KeyOf(args[p])
             /\ last'[p].outcome = (IF pc[p] = "load" THEN "FileNotFoundError"
                                                    ELSE "SummarizerError")
             /\ files' = files
             /\ ~KeySaved(KeyOf(args[p]))
                => /\ ~files'[PathOf(args[p])].exists
                   /\ ~files'[HasCachedPath(args[p].youtuber, args[p].video_id,
                                            args[p].window_size,
                                            args[p].step_size)].exists]_vars

\* one call failed on the summarizer and one on the absent transcript of v2,
\* neither key has a chunk file, and another key's chunk set is persisted
C28_Witness ==
    /\ last["p1"].op = "chunk_transcript"
    /\ last["p1"].outcome = "SummarizerError"
    /\ last["p2"].op = "chunk_transcript"
    /\ last["p2"].outcome = "FileNotFoundError"
    /\ \A p \in Procs : ~files[last[p].path].exists
    /\ \E f \in Paths : files[f].exists /\ JsonLoads(files[f].data).ok

\* the results hold exactly one result per input element
OneResultEach ==
    /\ Len(mp_results) = mp_n
    /\ \A i \in 1..mp_n : Cardinality({j \in 1..Len(mp_results) : mp_results[j] = Result(i)}) = 1

\* C29: at no point are more than max_concurrency invocations of f in progress;
\* and if every invocation of f returns, map_progress returns, with exactly one
\* result per input element.
C29_BoundedConcurrency ==
    /\ [](Cardinality(Running) <= mp_max)
    /\ [](mp_pc = "returned" => OneResultEach)
    /\ (<>(\E i \in 1..Len(mp_task) : mp_task[i] = "failed")) \/ <>(mp_pc = "returned")

\* three elements under max_concurrency 2: map_progress has returned, the
\* semaphore is free again, and the results are not in input order
C29_Witness ==
    /\ mp_pc = "returned"
    /\ mp_n = MaxSeq
    /\ mp_max = 2
    /\ mp_sem = mp_max
    /\ OneResultEach
    /\ mp_results[1] # Result(1)

\* list_cached_videos has ended and its result lists the video of key a
ListedBy(a) ==
    /\ lc_ret.outcome = "returned"
    /\ \E i \in 1..Len(lc_ret.value) : lc_ret.value[i].url = VideoUrl(a.video_id)

\* C30: has_cached_transcript is true for a key exactly when chunk_transcript
\* would take the cache-hit branch for it; and a key whose chunk_transcript has
\* succeeded is listed by list_cached_videos for the key's namespace.
C30_HasCachedAgrees ==
    /\ \A a \in ListArgs :
          FileExists(HasCachedPath(a.youtuber, a.video_id, a.window_size, a.step_size))
          <=> FileExists(PathOf(a))
    /\ (lc_pc = "idle" /\ lc_args # NoArgs)
       => \A a \in PersistedIn(lc_args.youtuber, lc_args.window_size, lc_args.step_size) :
             ListedBy(a)

\* the first half of C30 alone: the file has_cached_transcript tests is the
\* file the hit branch of chunk_transcript tests
HasCachedIsHit ==
    \A a \in ListArgs :
        FileExists(HasCachedPath(a.youtuber, a.video_id, a.window_size, a.step_size))
        <=> FileExists(PathOf(a))

====
